---- MODULE Spec2Model ----
(***************************************************************************)
(* Model of the schema-diff / DDL-synthesis / sandbox-preview engine.      *)
(*                                                                         *)
(* The repository holds three variants of the preview module, which share  *)
(* the registry code and differ in the sandbox backend:                    *)
(*   "memory"    src/unnamed/part_000  (pg-mem engine, synthesized script) *)
(*   "hybrid"    src/unnamed/part_001  (pg-mem engine, validated script)   *)
(*   "container" src/unnamed/part_002  (docker postgres container)         *)
(* and the extended comparator / generator of src/apps/web/utils/dbUtils.ts*)
(*                                                                         *)
(* The variable backend selects the variant; every request handler is a    *)
(* process whose pc is the await it is suspended at.                       *)
(***************************************************************************)
EXTENDS Integers, Sequences, FiniteSets, TLC

VARIABLES
    backend,      \* which variant of the preview module is running
    now,          \* Date.now()
    ticks,        \* number of clock advances so far (bounds the model)
    registry,     \* activeDatabases / activeContainers, in key insertion order
    sandboxes,    \* every engine instance / docker container ever provisioned
    nextId,       \* uuidv4(): the next fresh identifier
    pc,           \* per request slot: the await previewChanges is suspended at
    loc,          \* per request slot: the locals of previewChanges
    requests,     \* number of previewChanges calls made so far
    rpc,          \* the reaper callback's position
    rnow,         \* the reaper cycle's clock reading (const now)
    rqueue,       \* the reaper cycle's Object.entries snapshot, not yet visited
    rtarget,      \* the container the reaper's stopPreviewContainer acts on
    leaseLog,     \* history: per user the leases since the entry was last deleted
    parserDropSchema, \* whether the installed SQL parser has a DROP SCHEMA/DATABASE rule
    vScript,      \* verifyPsql: the script under validation
    vResult,      \* verifyPsql: its result
    cmpSchema1,      \* compareSchemas: the source schema
    cmpSchema2,      \* compareSchemas: the target schema
    cmp,          \* compareSchemas: which comparator ran, and the diff it returned
    plSource,     \* preview pipeline: the source schema
    plTarget,     \* preview pipeline: the target schema
    plDb,         \* preview pipeline: the catalog of the sandbox database
    plScript,     \* preview pipeline: the script generatePsql returned
    plStage,      \* preview pipeline: the step of previewChanges' try block reached
    plFinal,      \* preview pipeline: finalDiff
    plRound,      \* preview pipeline: how many previews the sandbox has served
    syn,          \* script synthesis: which generatePsql ran, and what it returned
    apScript,     \* applyPsqlToPreviewDB: the statements psql.split(';') yielded
    apIndex,      \* applyPsqlToPreviewDB: the number of statements attempted
    apStart,      \* applyPsqlToPreviewDB: the catalog of the sandbox when it was called
    apDb,         \* applyPsqlToPreviewDB: the catalog of the sandbox database
    apLog,        \* applyPsqlToPreviewDB: the statements console.error reported
    apStage       \* applyPsqlToPreviewDB: running, returned or raised

procVars == <<backend, now, ticks, registry, sandboxes, nextId, pc, loc, requests,
              rpc, rnow, rqueue, rtarget, leaseLog>>
verifyVars == <<vScript, vResult>>
compareVars == <<cmpSchema1, cmpSchema2, cmp>>
pipelineVars == <<plSource, plTarget, plDb, plScript, plStage, plFinal, plRound>>
synthVars == <<syn>>
applyVars == <<apScript, apIndex, apStart, apDb, apLog, apStage>>
pureVars == <<parserDropSchema, verifyVars, compareVars, pipelineVars, synthVars, applyVars>>
vars == <<procVars, pureVars>>

(***************************************************************************)
(* Bounds of the model and constants of the program.                       *)
(***************************************************************************)
Users == {"u1", "u2"}
Procs == {"p1", "p2"}
Backends == {"memory", "hybrid", "container"}

MaxRequests == 3
MaxSandboxes == 3
MaxTicks == 2
MaxConcRequests == 2
MaxConcTicks == 1

BasePort == 5433
InactiveThreshold == 1800000

\* The clock advances by a millisecond or by the whole inactivity threshold.
TickSteps == {1, InactiveThreshold}

(***************************************************************************)
(* The registry: a JavaScript object used as a map from user id to the     *)
(* PreviewDatabase / PreviewContainer record, kept here as the sequence of *)
(* its entries in property insertion order (the order of Object.entries).  *)
(***************************************************************************)
NoEntry == [user |-> "none", id |-> 0, port |-> 0, lastAccessed |-> 0]

RECURSIVE RegIndex(_, _)
RegIndex(reg, u) ==
    IF reg = <<>> THEN 0
    ELSE IF reg[Len(reg)].user = u THEN Len(reg)
    ELSE RegIndex(SubSeq(reg, 1, Len(reg) - 1), u)

\* mutation: the lookup misses the user's entry
RegGetMissing(reg, u) == NoEntry

\* activeContainers[userId]
RegGet(reg, u) == IF RegIndex(reg, u) = 0 THEN NoEntry ELSE reg[RegIndex(reg, u)]

\* activeContainers[userId] = entry: an existing key keeps its position
RegSet(reg, u, e) ==
    IF RegIndex(reg, u) = 0 THEN Append(reg, e)
    ELSE [reg EXCEPT ![RegIndex(reg, u)] = e]

\* delete activeContainers[userId]
RegDelete(reg, u) == SelectSeq(reg, LAMBDA e : e.user # u)

\* mutation: the reuse path leaves a zero timestamp instead of the clock reading
RegTouchZero(reg, u, t) == [reg EXCEPT ![RegIndex(reg, u)].lastAccessed = 0]

\* activeContainers[userId].lastAccessed = Date.now()
RegTouch(reg, u, t) == [reg EXCEPT ![RegIndex(reg, u)].lastAccessed = t]

\* Object.keys(activeContainers).length
RegCount(reg) == Len(reg)

NoSandbox == [user |-> "none", port |-> 0, state |-> "none"]

(***************************************************************************)
(* Strings.  A JavaScript string is modelled as the sequence of its        *)
(* characters, so that split, trim, toLowerCase and includes are computed  *)
(* as String.prototype computes them.                                      *)
(***************************************************************************)
UpperToLower ==
    ("A" :> "a") @@ ("B" :> "b") @@ ("C" :> "c") @@ ("D" :> "d") @@ ("E" :> "e") @@ ("F" :> "f") @@ ("G" :> "g") @@ ("H" :> "h") @@ ("I" :> "i") @@ ("J" :> "j") @@ ("K" :> "k") @@ ("L" :> "l") @@ ("M" :> "m") @@ ("N" :> "n") @@ ("O" :> "o") @@ ("P" :> "p") @@ ("Q" :> "q") @@ ("R" :> "r") @@ ("S" :> "s") @@ ("T" :> "t") @@ ("U" :> "u") @@ ("V" :> "v") @@ ("W" :> "w") @@ ("X" :> "x") @@ ("Y" :> "y") @@ ("Z" :> "z")

LowerChar(c) == IF c \in DOMAIN UpperToLower THEN UpperToLower[c] ELSE c

\* String.prototype.toLowerCase
ToLowerCase(s) == [i \in 1..Len(s) |-> LowerChar(s[i])]

\* String.prototype.includes
Includes(s, sub) ==
    \E i \in 1..(Len(s) - Len(sub) + 1) : SubSeq(s, i, i + Len(sub) - 1) = sub

WhiteSpace == {" ", "\n", "\t"}

RECURSIVE TrimLeft(_)
TrimLeft(s) ==
    IF s # <<>> /\ s[1] \in WhiteSpace THEN TrimLeft(Tail(s)) ELSE s

RECURSIVE TrimRight(_)
TrimRight(s) ==
    IF s # <<>> /\ s[Len(s)] \in WhiteSpace
    THEN TrimRight(SubSeq(s, 1, Len(s) - 1)) ELSE s

\* String.prototype.trim
Trim(s) == TrimRight(TrimLeft(s))

FirstIndexOf(s, chars) ==
    IF \E i \in 1..Len(s) : s[i] \in chars
    THEN CHOOSE i \in 1..Len(s) : s[i] \in chars /\ \A j \in 1..(i - 1) : s[j] \notin chars
    ELSE 0

\* String.prototype.split on a set of one-character separators
RECURSIVE SplitOn(_, _)
SplitOn(s, chars) ==
    IF FirstIndexOf(s, chars) = 0 THEN <<s>>
    ELSE <<SubSeq(s, 1, FirstIndexOf(s, chars) - 1)>>
         \o SplitOn(SubSeq(s, FirstIndexOf(s, chars) + 1, Len(s)), chars)

\* psql.split(';')
Split(s) == SplitOn(s, {";"})

RECURSIVE Concat(_)
Concat(ss) == IF ss = <<>> THEN <<>> ELSE Head(ss) \o Concat(Tail(ss))

(***************************************************************************)
(* The SQL grammar parser (pgsql-ast-parser's parse) as verifyPsql uses    *)
(* it: a statement is tokenised on white space, keywords are case          *)
(* insensitive, and the statement parses when it matches a rule of the     *)
(* grammar.  Whether the grammar has a rule for DROP SCHEMA / DROP         *)
(* DATABASE depends on the installed parser: parserDropSchema.             *)
(***************************************************************************)
kw_drop == <<"d", "r", "o", "p">>
kw_schema == <<"s", "c", "h", "e", "m", "a">>
kw_database == <<"d", "a", "t", "a", "b", "a", "s", "e">>
kw_table == <<"t", "a", "b", "l", "e">>
kw_alter == <<"a", "l", "t", "e", "r">>
kw_add == <<"a", "d", "d">>
kw_column == <<"c", "o", "l", "u", "m", "n">>
kw_truncate == <<"t", "r", "u", "n", "c", "a", "t", "e">>
SqlTypes == {<<"i", "n", "t">>, <<"t", "e", "x", "t">>}
SqlKeywords == {kw_drop, kw_schema, kw_database, kw_table, kw_alter, kw_add,
                kw_column, kw_truncate}

\* the words of a statement: lower-cased, separated by white space
SqlWords(stmt) == SelectSeq(SplitOn(ToLowerCase(stmt), WhiteSpace), LAMBDA w : w # <<>>)

Letters == {UpperToLower[c] : c \in DOMAIN UpperToLower}

\* an identifier: a word of letters that is not a keyword
IsIdent(w) == w # <<>> /\ w \notin SqlKeywords /\ \A i \in 1..Len(w) : w[i] \in Letters

\* parse(statement) returns (TRUE) or throws (FALSE)
Parse(stmt, hasDropSchema) ==
    LET w == SqlWords(stmt) IN
    \/ /\ Len(w) = 7
       /\ w[1] = kw_alter /\ w[2] = kw_table /\ IsIdent(w[3])
       /\ w[4] = kw_add /\ w[5] = kw_column /\ IsIdent(w[6]) /\ w[7] \in SqlTypes
    \/ /\ Len(w) = 3
       /\ w[1] = kw_drop /\ w[2] = kw_table /\ IsIdent(w[3])
    \/ /\ Len(w) = 2
       /\ w[1] = kw_truncate /\ IsIdent(w[2])
    \/ /\ hasDropSchema
       /\ Len(w) = 3
       /\ w[1] = kw_drop /\ w[2] \in {kw_schema, kw_database} /\ IsIdent(w[3])

(***************************************************************************)
(* verifyPsql (src/unnamed/part_001, lines 53-78).                         *)
(***************************************************************************)
DenyNeedleDatabase == <<"d", "r", "o", "p", " ", "d", "a", "t", "a", "b", "a", "s", "e">>
DenyNeedleSchema == <<"d", "r", "o", "p", " ", "s", "c", "h", "e", "m", "a">>
TruncateNeedle == <<"t", "r", "u", "n", "c", "a", "t", "e">>

\* statements = psql.split(';').filter(stmt => stmt.trim() !== '')
Statements(psql) == SelectSeq(Split(psql), LAMBDA st : Trim(st) # <<>>)

\* a loop that stops at the first statement parse() rejects
ParseErrorsFailFast(stmts, hasDropSchema) ==
    IF \E i \in 1..Len(stmts) : ~Parse(stmts[i], hasDropSchema)
    THEN LET first == CHOOSE i \in 1..Len(stmts) :
                          /\ ~Parse(stmts[i], hasDropSchema)
                          /\ \A j \in 1..(i - 1) : Parse(stmts[j], hasDropSchema)
         IN <<[kind |-> "parse", statement |-> Trim(stmts[first])]>>
    ELSE <<>>

\* the for loop: one error per statement that parse() rejects, none stops the loop
RECURSIVE ParseErrors(_, _)
ParseErrors(stmts, hasDropSchema) ==
    IF stmts = <<>> THEN <<>>
    ELSE (IF Parse(Head(stmts), hasDropSchema) THEN <<>>
          ELSE <<[kind |-> "parse", statement |-> Trim(Head(stmts))]>>)
         \o ParseErrors(Tail(stmts), hasDropSchema)

DenyErrors(psql) ==
    IF \/ Includes(ToLowerCase(psql), DenyNeedleDatabase)
       \/ Includes(ToLowerCase(psql), DenyNeedleSchema)
    THEN <<[kind |-> "destructive", statement |-> <<>>]>> ELSE <<>>

TruncateErrors(psql) ==
    IF Includes(ToLowerCase(psql), TruncateNeedle)
    THEN <<[kind |-> "truncate", statement |-> <<>>]>> ELSE <<>>

verifyPsql(psql, hasDropSchema) ==
    LET errors == ParseErrors(Statements(psql), hasDropSchema)
                  \o DenyErrors(psql) \o TruncateErrors(psql)
    IN [isValid |-> Len(errors) = 0, errors |-> errors]

(***************************************************************************)
(* The scripts verifyPsql is checked on: up to MaxStatements statements,   *)
(* each ended by ';'.  The DROP statements vary the letter case of the     *)
(* keyword, the white space between the keywords and the object dropped.   *)
(***************************************************************************)
MaxStatements == 2

DropKeywords == {<<"D", "R", "O", "P">>, <<"d", "R", "o", "P">>}
KeywordSeparators == {<<" ">>, <<" ", " ">>, <<"\n">>}
DropObjects == {<<"S", "C", "H", "E", "M", "A", " ", "s">>, <<"D", "a", "t", "a", "b", "a", "s", "e", " ", "d">>, <<"T", "A", "B", "L", "E", " ", "t">>}
DropStatements ==
    {k \o sep \o o : k \in DropKeywords, sep \in KeywordSeparators, o \in DropObjects}

AddColumnText == <<"A", "L", "T", "E", "R", " ", "T", "A", "B", "L", "E", " ", "t", " ", "A", "D", "D", " ", "C", "O", "L", "U", "M", "N", " ", "c", " ", "i", "n", "t">>
\* ALTER TABLE t ADD COLUMN truncated int
AddTruncatedColumnText == <<"A", "L", "T", "E", "R", " ", "T", "A", "B", "L", "E", " ", "t", " ", "A", "D", "D", " ", "C", "O", "L", "U", "M", "N", " ", "t", "r", "u", "n", "c", "a", "t", "e", "d", " ", "i", "n", "t">>
TruncateText == <<"T", "R", "U", "N", "C", "A", "T", "E", " ", "t">>
GarbageText == <<"S", "E", "L", "E", "C">>
BlankText == <<" ">>

StatementTexts ==
    DropStatements
    \cup {AddColumnText, AddTruncatedColumnText, TruncateText, GarbageText, BlankText}

ScriptOf(stmts) == Concat([i \in 1..Len(stmts) |-> stmts[i] \o <<";">>])

Scripts ==
    {ScriptOf(ss) : ss \in UNION {[1..n -> StatementTexts] : n \in 0..MaxStatements}}

\* the statements of a script that drop a database or a schema
IsDestructive(stmt) ==
    LET w == SqlWords(stmt) IN
    Len(w) >= 2 /\ w[1] = kw_drop /\ w[2] \in {kw_schema, kw_database}

HasDestructive(psql) ==
    \E i \in 1..Len(Split(psql)) : IsDestructive(Split(psql)[i])

NoResult == [isValid |-> FALSE, errors |-> <<[kind |-> "none", statement |-> <<>>]>>]

(***************************************************************************)
(* Schemas.  A DatabaseSchema and the columns of a table are JavaScript    *)
(* objects used as maps: a function from the own keys, read through the    *)
(* prototype chain by [] and by the in operator.  Object.keys enumerates   *)
(* the own keys in a fixed order (KeyOrder).                               *)
(***************************************************************************)
JsNull == "<null>"
Undefined == "<undefined>"
NullLength == 0

\* if (value) ..., of a string or null
TruthyText(v) == v \notin {JsNull, Undefined, ""}

\* if (value) ..., of a number or null
TruthyNumber(n) == n # NullLength

\* the keys every object inherits from Object.prototype
ProtoKeys == {"constructor"}

KeyOrder == <<"users", "constructor", "id", "name">>

\* Object.keys(obj)
Keys(obj) == SelectSeq(KeyOrder, LAMBDA k : k \in DOMAIN obj)

\* key in obj
JsHas(obj, k) == k \in DOMAIN obj \/ k \in ProtoKeys

\* obj[key] is an inherited value (Object.prototype.constructor), not an entry
Inherited(obj, k) == k \notin DOMAIN obj /\ k \in ProtoKeys

Range(seq) == {seq[i] : i \in 1..Len(seq)}

\* JSON.stringify of a ColumnInfo: its defined fields in declaration order
JsonColumn(c) ==
    << <<"type", c.type>>, <<"maxLength", c.maxLength>>, <<"isNullable", c.isNullable>> >>
    \o (IF c.defaultValue = Undefined THEN <<>>
        ELSE << <<"defaultValue", c.defaultValue>> >>)
    \o << <<"isPrimaryKey", c.isPrimaryKey>>, <<"permissions", c.permissions>> >>

\* JSON.stringify of a ForeignKeyInfo
JsonForeignKey(fk) ==
    << <<"columnName", fk.columnName>>, <<"referenceTable", fk.referenceTable>>,
       <<"referenceColumn", fk.referenceColumn>>, <<"updateRule", fk.updateRule>>,
       <<"deleteRule", fk.deleteRule>> >>

\* JSON.stringify of an array
JsonList(list, Item(_)) == [i \in 1..Len(list) |-> Item(list[i])]

Col(type, maxLength, isNullable, defaultValue, isPrimaryKey, permissions) ==
    [type |-> type, maxLength |-> maxLength, isNullable |-> isNullable,
     defaultValue |-> defaultValue, isPrimaryKey |-> isPrimaryKey,
     permissions |-> permissions]

\* schema[key] read through the prototype chain yields Object, which has no fields
ProtoColumn == Col("<Object>", NullLength, FALSE, Undefined, FALSE, <<>>)

EmptyTableDiff ==
    [columnsAdded |-> <<>>, columnsRemoved |-> <<>>, columnsDiff |-> <<>>,
     foreignKeysAdded |-> <<>>, foreignKeysRemoved |-> <<>>,
     foreignKeys |-> [set |-> FALSE, value |-> <<>>],
     rlsPolicies |-> [set |-> FALSE, value |-> <<>>]]

EmptyDiff == [threw |-> FALSE, tablesAdded |-> <<>>, tablesRemoved |-> <<>>,
              tablesDiff |-> <<>>]

\* a TypeError leaves the function
Thrown == [threw |-> TRUE, tablesAdded |-> <<>>, tablesRemoved |-> <<>>,
           tablesDiff |-> <<>>]

\* mutation: every table of the target is reported added
TablesAddedAll(schema1, schema2) == Keys(schema2)

\* Object.keys(schema2).filter(table => !(table in schema1))
TablesAdded(schema1, schema2) ==
    SelectSeq(Keys(schema2), LAMBDA t : ~JsHas(schema1, t))

\* Object.keys(schema1).filter(table => !(table in schema2))
TablesRemoved(schema1, schema2) ==
    SelectSeq(Keys(schema1), LAMBDA t : ~JsHas(schema2, t))

\* JSON.stringify(schema1[table].columns[column]) !== JSON.stringify(schema2[...])
ColumnChanged(c1, c2) == JsonColumn(c1) # JsonColumn(c2)

\* columns[column], through the prototype chain
ColumnAt(cols, k) == IF k \in DOMAIN cols THEN cols[k] ELSE ProtoColumn

\* fk2.filter(fk => !fk1.some(f => JSON.stringify(f) === JSON.stringify(fk)))
ForeignKeysNotIn(fks, others) ==
    SelectSeq(fks, LAMBDA fk :
        ~\E i \in 1..Len(others) : JsonForeignKey(others[i]) = JsonForeignKey(fk))

\* the per-table diff of the basic comparator (part_000 lines 128-168)
TableDiff(t1, t2) ==
    LET removed == SelectSeq(Keys(t1.columns), LAMBDA c : ~JsHas(t2.columns, c))
        changed == {c \in DOMAIN t1.columns :
                        /\ JsHas(t2.columns, c)
                        /\ ColumnChanged(t1.columns[c], ColumnAt(t2.columns, c))}
        added == SelectSeq(Keys(t2.columns), LAMBDA c : ~JsHas(t1.columns, c))
    IN [EmptyTableDiff EXCEPT
           !.columnsAdded = added,
           !.columnsRemoved = removed,
           !.columnsDiff = [c \in changed |->
                               [from |-> t1.columns[c], to |-> ColumnAt(t2.columns, c)]],
           !.foreignKeysAdded = ForeignKeysNotIn(t2.foreignKeys, t1.foreignKeys),
           !.foreignKeysRemoved = ForeignKeysNotIn(t1.foreignKeys, t2.foreignKeys)]

\* the check "if there are any differences" of the basic comparator
HasDifferences(td) ==
    \/ Len(td.columnsAdded) > 0
    \/ Len(td.columnsRemoved) > 0
    \/ DOMAIN td.columnsDiff # {}
    \/ Len(td.foreignKeysAdded) > 0
    \/ Len(td.foreignKeysRemoved) > 0

\* compareSchemas of part_000, part_001 and part_002
compareSchemas(schema1, schema2) ==
    LET both == {t \in DOMAIN schema1 : JsHas(schema2, t)} IN
    IF \E t \in both : Inherited(schema2, t)
    THEN \* schema2[table] is Object: reading its columns' keys is a TypeError
         Thrown
    ELSE [threw |-> FALSE,
          tablesAdded |-> TablesAdded(schema1, schema2),
          tablesRemoved |-> TablesRemoved(schema1, schema2),
          tablesDiff |-> [t \in {x \in both : HasDifferences(TableDiff(schema1[x], schema2[x]))}
                             |-> TableDiff(schema1[t], schema2[t])]]

\* JSON.stringify(list1) !== JSON.stringify(list2), of foreign keys
ForeignKeysDiffer(fks1, fks2) ==
    JsonList(fks1, JsonForeignKey) # JsonList(fks2, JsonForeignKey)

\* the per-table diff of the extended comparator (dbUtils.ts lines 121-153)
TableDiffExtended(t1, t2) ==
    LET added == SelectSeq(Keys(t2.columns), LAMBDA c : ~JsHas(t1.columns, c))
        changed == {c \in DOMAIN t2.columns :
                        /\ JsHas(t1.columns, c)
                        /\ JsonColumn(ColumnAt(t1.columns, c)) # JsonColumn(t2.columns[c])}
        removed == SelectSeq(Keys(t1.columns), LAMBDA c : ~JsHas(t2.columns, c))
    IN [EmptyTableDiff EXCEPT
           !.columnsAdded = added,
           !.columnsRemoved = removed,
           !.columnsDiff = [c \in changed |->
                               [from |-> ColumnAt(t1.columns, c), to |-> t2.columns[c]]],
           !.foreignKeys = IF ForeignKeysDiffer(t1.foreignKeys, t2.foreignKeys)
                           THEN [set |-> TRUE, value |-> t2.foreignKeys]
                           ELSE [set |-> FALSE, value |-> <<>>],
           !.rlsPolicies = IF t1.rlsPolicies # t2.rlsPolicies
                           THEN [set |-> TRUE, value |-> t2.rlsPolicies]
                           ELSE [set |-> FALSE, value |-> <<>>]]

\* the emission test of the extended comparator: an array that was set is truthy
HasDifferencesExtended(td) ==
    \/ DOMAIN td.columnsDiff # {}
    \/ Len(td.columnsAdded) > 0
    \/ Len(td.columnsRemoved) > 0
    \/ td.foreignKeys.set
    \/ td.rlsPolicies.set

\* compareSchemas of dbUtils.ts
compareSchemasExtended(schema1, schema2) ==
    LET both == {t \in DOMAIN schema1 : JsHas(schema2, t)}
        own == {t \in both : t \in DOMAIN schema2}
    IN IF \E t \in both : Inherited(schema2, t) /\ DOMAIN schema1[t].columns # {}
       THEN \* schema2[table].columns is undefined: indexing it is a TypeError
            Thrown
       ELSE [threw |-> FALSE,
             tablesAdded |-> TablesAdded(schema1, schema2),
             tablesRemoved |-> TablesRemoved(schema1, schema2),
             tablesDiff |-> [t \in {x \in own : HasDifferencesExtended(
                                                    TableDiffExtended(schema1[x], schema2[x]))}
                                |-> TableDiffExtended(schema1[t], schema2[t])]]

(***************************************************************************)
(* generatePsql of part_000 and part_002.  The script is the sequence of   *)
(* its statements; a statement records what its text says.                 *)
(***************************************************************************)
NoFk == [columnName |-> "", referenceTable |-> "", referenceColumn |-> "",
         updateRule |-> "", deleteRule |-> ""]

Stmt(op, table) ==
    [op |-> op, table |-> table, column |-> "", type |-> "", length |-> NullLength,
     notNull |-> FALSE, default |-> JsNull, fk |-> NoFk,
     ifExists |-> FALSE, columns |-> <<>>, words |-> <<>>, grants |-> <<>>]

\* DROP TABLE IF EXISTS "t" CASCADE;
DropTableStmt(t) == [Stmt("DROP TABLE", t) EXCEPT !.ifExists = TRUE]

\* CREATE TABLE "t" ();
CreateTableStmt(t) == Stmt("CREATE TABLE", t)

\* ALTER TABLE "t" ADD COLUMN "c" type[(maxLength)][ NOT NULL][ DEFAULT d];
AddColumnStmt(t, c, info) ==
    [Stmt("ADD COLUMN", t) EXCEPT
        !.column = c, !.type = info.type,
        !.length = IF TruthyNumber(info.maxLength) THEN info.maxLength ELSE NullLength,
        !.notNull = ~info.isNullable,
        !.default = IF TruthyText(info.defaultValue) THEN info.defaultValue ELSE JsNull]

\* the statements for one entry of columnsDiff
ModifyColumnStmts(t, c, d) ==
    (IF d.from.type # d.to.type \/ d.from.maxLength # d.to.maxLength
     THEN <<[Stmt("ALTER TYPE", t) EXCEPT
                !.column = c, !.type = d.to.type,
                !.length = IF TruthyNumber(d.to.maxLength) THEN d.to.maxLength
                           ELSE NullLength]>>
     ELSE <<>>)
    \o (IF d.from.isNullable # d.to.isNullable
        THEN <<[Stmt(IF d.to.isNullable THEN "DROP NOT NULL" ELSE "SET NOT NULL", t)
                   EXCEPT !.column = c]>>
        ELSE <<>>)
    \o (IF d.from.defaultValue # d.to.defaultValue
        THEN (IF TruthyText(d.to.defaultValue)
              THEN <<[Stmt("SET DEFAULT", t) EXCEPT !.column = c,
                                                    !.default = d.to.defaultValue]>>
              ELSE <<[Stmt("DROP DEFAULT", t) EXCEPT !.column = c]>>)
        ELSE <<>>)

\* ALTER TABLE "t" DROP COLUMN "c";
DropColumnStmt(t, c) == [Stmt("DROP COLUMN", t) EXCEPT !.column = c]

\* ALTER TABLE "t" ADD CONSTRAINT "t_c_fkey" FOREIGN KEY ... ;
AddConstraintStmt(t, fk) ==
    [Stmt("ADD CONSTRAINT", t) EXCEPT !.column = fk.columnName, !.fk = fk]

\* ALTER TABLE "t" DROP CONSTRAINT "t_c_fkey";
DropConstraintStmt(t, fk) == [Stmt("DROP CONSTRAINT", t) EXCEPT !.column = fk.columnName]

Map(seq, F(_)) == [i \in 1..Len(seq) |-> F(seq[i])]

\* tableDiff.columnsDiff[column].to is read for a column that has no entry
AddColumnThrows(td) ==
    \E i \in 1..Len(td.columnsAdded) : td.columnsAdded[i] \notin DOMAIN td.columnsDiff

\* the statements for one entry of tablesDiff (lines 200-246)
AlterTableStmts(t, td) ==
    Map(td.columnsAdded, LAMBDA c : AddColumnStmt(t, c, td.columnsDiff[c].to))
    \o Concat(Map(SelectSeq(KeyOrder, LAMBDA c : c \in DOMAIN td.columnsDiff),
                  LAMBDA c : ModifyColumnStmts(t, c, td.columnsDiff[c])))
    \o Map(td.columnsRemoved, LAMBDA c : DropColumnStmt(t, c))
    \o Map(td.foreignKeysAdded, LAMBDA fk : AddConstraintStmt(t, fk))
    \o Map(td.foreignKeysRemoved, LAMBDA fk : DropConstraintStmt(t, fk))

NoScript == [threw |-> TRUE, statements |-> <<>>]

generatePsql(diff) ==
    IF \E t \in DOMAIN diff.tablesDiff : AddColumnThrows(diff.tablesDiff[t])
    THEN NoScript
    ELSE [threw |-> FALSE,
          statements |->
              Map(diff.tablesRemoved, DropTableStmt)
              \o Map(diff.tablesAdded, CreateTableStmt)
              \o Concat(Map(Keys(diff.tablesDiff),
                            LAMBDA t : AlterTableStmts(t, diff.tablesDiff[t])))]

(***************************************************************************)
(* generatePsql of dbUtils.ts (lines 289-422): the extended generator,     *)
(* which takes the full target schema.  Policies and permissions are the   *)
(* strings getSchema builds, held as the words split(' ') yields.          *)
(***************************************************************************)
\* getColumnDefinitionSQL(colName, colInfo)
ColumnDef(c, info) ==
    [name |-> c, type |-> info.type,
     length |-> IF TruthyNumber(info.maxLength) THEN info.maxLength ELSE NullLength,
     notNull |-> ~info.isNullable,
     default |-> IF TruthyText(info.defaultValue) THEN info.defaultValue ELSE JsNull]

\* array[i], undefined past the end
WordAt(words, i) == IF i <= Len(words) THEN words[i] ELSE Undefined

\* rest.indexOf(word), 0 when absent
IndexOf(words, w) ==
    IF \E i \in 1..Len(words) : words[i] = w
    THEN CHOOSE i \in 1..Len(words) : words[i] = w /\ \A j \in 1..(i - 1) : words[j] # w
    ELSE 0

\* the statements for one policy (lines 303-315)
PolicyStmts(t, policy) ==
    LET policyName == WordAt(policy, 3)
        policyType == WordAt(policy, 4)
        policyAction == WordAt(policy, 6)
        rest == SubSeq(policy, 7, Len(policy))
        usingIndex == IndexOf(rest, "USING")
        checkIndex == IndexOf(rest, "WITH")
        policyUsing == IF usingIndex = 0 THEN <<>>
                       ELSE SubSeq(rest, usingIndex + 1,
                                   IF checkIndex # 0 THEN checkIndex - 1 ELSE Len(rest))
        policyCheck == IF checkIndex = 0 THEN <<>>
                       ELSE SubSeq(rest, checkIndex + 2, Len(rest))
    IN << [Stmt("DROP POLICY", t) EXCEPT !.ifExists = TRUE, !.words = <<policyName>>],
          [Stmt("CREATE POLICY", t) EXCEPT
              !.words = <<policyName, "FOR", policyAction, "TO", policyType>>
                        \o (IF policyUsing # <<>> THEN <<"USING">> \o policyUsing ELSE <<>>)
                        \o (IF policyCheck # <<>> THEN <<"WITH CHECK">> \o policyCheck
                            ELSE <<>>)] >>

\* handleRLSPolicies(table, policies)
handleRLSPolicies(t, policies) ==
    <<Stmt("ENABLE ROW LEVEL SECURITY", t)>>
    \o Concat(Map(policies, LAMBDA policy : PolicyStmts(t, policy)))

\* the first occurrence of each element, in order
RECURSIVE Distinct(_)
Distinct(seq) ==
    IF seq = <<>> THEN <<>>
    ELSE LET init == Distinct(SubSeq(seq, 1, Len(seq) - 1)) IN
         IF \E i \in 1..Len(init) : init[i] = seq[Len(seq)] THEN init
         ELSE Append(init, seq[Len(seq)])

\* one (grantee, privilege, column) per permission string of the table's columns
PermissionEntries(columns) ==
    Concat(Map(Keys(columns), LAMBDA c :
        Map(columns[c].permissions, LAMBDA permission :
            [privilege |-> WordAt(permission, 1), grantee |-> WordAt(permission, 4),
             column |-> c])))

\* handlePermissions(table, columns): one statement per grantee
handlePermissions(t, columns) ==
    LET entries == PermissionEntries(columns)
        own == SelectSeq(entries, LAMBDA e : e.grantee \notin ProtoKeys)
        grantees == Distinct(Map(own, LAMBDA e : e.grantee))
        Of(g) == SelectSeq(own, LAMBDA e : e.grantee = g)
        Grants(g) ==
            Map(Distinct(Map(Of(g), LAMBDA e : e.privilege)),
                LAMBDA pr : [privilege |-> pr,
                             columns |-> Distinct(Map(SelectSeq(Of(g),
                                                                LAMBDA e : e.privilege = pr),
                                                      LAMBDA e : e.column))])
    IN Map(SelectSeq(grantees, LAMBDA g : Len(Grants(g)) > 0),
           LAMBDA g : [Stmt("PERMISSION", t) EXCEPT !.words = <<g>>, !.grants = Grants(g)])

\* CREATE TABLE t (defs); [ADD CONSTRAINT t_pkey PRIMARY KEY (...);] then the
\* foreign keys (lines 357-375)
NewTableStmts(t, tableSchema) ==
    LET names == Keys(tableSchema.columns)
        primaryKeys == SelectSeq(names, LAMBDA c : tableSchema.columns[c].isPrimaryKey)
    IN <<[Stmt("CREATE TABLE", t) EXCEPT
             !.columns = Map(names, LAMBDA c : ColumnDef(c, tableSchema.columns[c]))]>>
       \o (IF Len(primaryKeys) > 0
           THEN <<[Stmt("ADD PRIMARY KEY", t) EXCEPT !.words = primaryKeys]>>
           ELSE <<>>)
       \o Map(tableSchema.foreignKeys, LAMBDA fk : AddConstraintStmt(t, fk))

\* tableSchema.columns[col] of a column the target table may only inherit
TargetColumn(tableSchema, c) ==
    IF c \in DOMAIN tableSchema.columns THEN tableSchema.columns[c] ELSE ProtoColumn

\* the statements for a table of tablesDiff (lines 378-413)
ExistingTableStmts(t, td, tableSchema) ==
    Map(td.columnsAdded, LAMBDA c : AddColumnStmt(t, c, TargetColumn(tableSchema, c)))
    \o Map(td.columnsRemoved,
           LAMBDA c : [DropColumnStmt(t, c) EXCEPT !.ifExists = TRUE])
    \o Concat(Map(SelectSeq(KeyOrder, LAMBDA c : c \in DOMAIN td.columnsDiff),
                  LAMBDA c : ModifyColumnStmts(t, c, td.columnsDiff[c])))
    \o (IF td.foreignKeys.set
        THEN Concat(Map(tableSchema.foreignKeys,
                        LAMBDA fk : << [DropConstraintStmt(t, fk) EXCEPT !.ifExists = TRUE],
                                       AddConstraintStmt(t, fk) >>))
        ELSE <<>>)

\* the body of the loop over [...tablesAdded, ...Object.keys(tablesDiff)]
TableStmts(t, diff, fullSchema) ==
    LET tableSchema == fullSchema[t] IN
    (IF \E i \in 1..Len(diff.tablesAdded) : diff.tablesAdded[i] = t
     THEN NewTableStmts(t, tableSchema)
     ELSE ExistingTableStmts(t, diff.tablesDiff[t], tableSchema))
    \o handleRLSPolicies(t, tableSchema.rlsPolicies)
    \o handlePermissions(t, tableSchema.columns)

\* generatePsql(diff, fullSchema): fullSchema[table] of a table the target
\* schema does not hold has no columns to read, and the read raises
generatePsqlExtended(diff, fullSchema) ==
    LET tables == diff.tablesAdded \o Keys(diff.tablesDiff) IN
    IF \E i \in 1..Len(tables) : tables[i] \notin DOMAIN fullSchema
    THEN NoScript
    ELSE [threw |-> FALSE,
          statements |->
              Map(diff.tablesRemoved, DropTableStmt)
              \o Concat(Map(tables, LAMBDA t : TableStmts(t, diff, fullSchema)))]

(***************************************************************************)
(* The sandbox database: its catalog, the execution of a script           *)
(* (applyPsqlToPreviewDB) and its introspection (getSchema).  A script is  *)
(* one query: the first statement that fails aborts it as a whole.         *)
(***************************************************************************)
EmptyDatabase == <<>>

EmptyRelation == [columns |-> <<>>, constraints |-> <<>>]

\* a row of information_schema.columns
CatalogRow(st) ==
    [data_type |-> st.type, character_maximum_length |-> st.length,
     is_nullable |-> IF st.notNull THEN "NO" ELSE "YES",
     column_default |-> st.default, is_primary_key |-> FALSE]

Put(f, k, v) == [x \in DOMAIN f \cup {k} |-> IF x = k THEN v ELSE f[x]]

Remove(f, k) == [x \in DOMAIN f \ {k} |-> f[x]]

HasColumn(db, t, c) == t \in DOMAIN db /\ c \in DOMAIN db[t].columns

HasConstraint(db, t, c) ==
    t \in DOMAIN db /\ \E i \in 1..Len(db[t].constraints) : db[t].constraints[i].columnName = c

\* whether the server accepts the statement in the catalog state db
Executable(db, st) ==
    CASE st.op = "DROP TABLE" -> TRUE
      [] st.op = "CREATE TABLE" -> st.table \notin DOMAIN db
      [] st.op = "ADD COLUMN" -> st.table \in DOMAIN db /\ ~HasColumn(db, st.table, st.column)
      [] st.op = "ADD CONSTRAINT" ->
            /\ HasColumn(db, st.table, st.column)
            /\ ~HasConstraint(db, st.table, st.column)
            /\ HasColumn(db, st.fk.referenceTable, st.fk.referenceColumn)
            /\ db[st.fk.referenceTable].columns[st.fk.referenceColumn].is_primary_key
      [] st.op = "DROP CONSTRAINT" ->
            \/ HasConstraint(db, st.table, st.column)
            \/ st.ifExists /\ st.table \in DOMAIN db
      [] st.op = "DROP COLUMN" ->
            \/ HasColumn(db, st.table, st.column)
            \/ st.ifExists /\ st.table \in DOMAIN db
      [] OTHER -> HasColumn(db, st.table, st.column)

SetColumn(db, st, row) ==
    [db EXCEPT ![st.table].columns = Put(db[st.table].columns, st.column, row)]

\* the catalog after the statement
Executed(db, st) ==
    LET row == db[st.table].columns[st.column] IN
    CASE st.op = "DROP TABLE" -> Remove(db, st.table)
      [] st.op = "CREATE TABLE" -> Put(db, st.table, EmptyRelation)
      [] st.op = "ADD COLUMN" -> SetColumn(db, st, CatalogRow(st))
      [] st.op = "ALTER TYPE" ->
            SetColumn(db, st, [row EXCEPT !.data_type = st.type,
                                          !.character_maximum_length = st.length])
      [] st.op = "SET NOT NULL" -> SetColumn(db, st, [row EXCEPT !.is_nullable = "NO"])
      [] st.op = "DROP NOT NULL" -> SetColumn(db, st, [row EXCEPT !.is_nullable = "YES"])
      [] st.op = "SET DEFAULT" -> SetColumn(db, st, [row EXCEPT !.column_default = st.default])
      [] st.op = "DROP DEFAULT" -> SetColumn(db, st, [row EXCEPT !.column_default = JsNull])
      [] st.op = "DROP COLUMN" ->
            [db EXCEPT ![st.table].columns = Remove(db[st.table].columns, st.column),
                       ![st.table].constraints =
                           SelectSeq(db[st.table].constraints,
                                     LAMBDA fk : fk.columnName # st.column)]
      [] st.op = "ADD CONSTRAINT" ->
            [db EXCEPT ![st.table].constraints = Append(db[st.table].constraints, st.fk)]
      [] st.op = "DROP CONSTRAINT" ->
            [db EXCEPT ![st.table].constraints =
                           SelectSeq(db[st.table].constraints,
                                     LAMBDA fk : fk.columnName # st.column)]

\* pool.query(psql): the catalog after the script, or the error of its first
\* failing statement
RECURSIVE Execute(_, _)
Execute(db, stmts) ==
    IF stmts = <<>> THEN [failed |-> FALSE, db |-> db]
    ELSE IF ~Executable(db, Head(stmts)) THEN [failed |-> TRUE, db |-> db]
    ELSE Execute(Executed(db, Head(stmts)), Tail(stmts))

\* getSchema(previewConnectionString): the catalog read back as a DatabaseSchema
getSchema(db) ==
    [t \in DOMAIN db |->
        [columns |-> [c \in DOMAIN db[t].columns |->
                         LET row == db[t].columns[c] IN
                         Col(row.data_type, row.character_maximum_length,
                             row.is_nullable = "YES", row.column_default,
                             row.is_primary_key, <<>>)],
         foreignKeys |-> db[t].constraints,
         rlsPolicies |-> <<>>]]

\* getSchema(previewDb) of part_001 on the in-memory engine: lengths and the
\* foreign key rules are not read (lines 174, 185-186)
getSchemaMem(db) ==
    [t \in DOMAIN db |->
        [columns |-> [c \in DOMAIN db[t].columns |->
                         LET row == db[t].columns[c] IN
                         Col(row.data_type, NullLength, row.is_nullable = "YES",
                             row.column_default, row.is_primary_key, <<>>)],
         foreignKeys |-> [i \in 1..Len(db[t].constraints) |->
                             [db[t].constraints[i] EXCEPT !.updateRule = "NO ACTION",
                                                          !.deleteRule = "NO ACTION"]],
         rlsPolicies |-> <<>>]]

\* generatePsql({tablesAdded: Object.keys(sourceSchema), ...}): the seeding script
SeedScript(sourceSchema) ==
    generatePsql([EmptyDiff EXCEPT !.tablesAdded = Keys(sourceSchema)])

(***************************************************************************)
(* The schemas the comparators are checked on.                             *)
(***************************************************************************)
IntPk == Col("integer", NullLength, FALSE, JsNull, TRUE, <<>>)
IntCol == Col("integer", NullLength, FALSE, JsNull, FALSE, <<>>)
TextCol == Col("text", NullLength, TRUE, JsNull, FALSE, <<>>)
Varchar50 == Col("character varying", 50, TRUE, JsNull, FALSE,
                 << <<"GRANT", "SELECT", "ON", "users(name)", "TO", "alice">> >>)

Fk(column, table) ==
    [columnName |-> column, referenceTable |-> table, referenceColumn |-> "id",
     updateRule |-> "NO ACTION", deleteRule |-> "CASCADE"]

FkA == Fk("id", "constructor")
FkB == Fk("name", "users")
FkC == [FkA EXCEPT !.deleteRule = "NO ACTION"]
ForeignKeyLists == {<<>>, <<FkA>>, <<FkC>>, <<FkA, FkB>>, <<FkB, FkA>>}

\* a policy as getSchema renders it, word by word
PolicyP == <<"CREATE", "POLICY", "p", "ON", "users", "FOR", "SELECT", "TO", "public",
             "WITH", "CHECK", "(true)">>
PolicyLists == {<<>>, <<PolicyP>>}

\* every map from a subset of the keys to the values allowed for each key
Maps(choices) ==
    UNION {{f \in [ks -> UNION {choices[k] : k \in ks}] : \A k \in ks : f[k] \in choices[k]}
           : ks \in SUBSET DOMAIN choices}

ColumnMaps ==
    Maps([id |-> {IntPk, IntCol}, name |-> {TextCol, Varchar50}, constructor |-> {TextCol}])

Table(cols, fks, rls) == [columns |-> cols, foreignKeys |-> fks, rlsPolicies |-> rls]

UsersTables ==
    {Table(cols, fks, rls) : cols \in ColumnMaps, fks \in ForeignKeyLists, rls \in PolicyLists}

OtherTables == {Table(<<>>, <<>>, <<>>), Table([id |-> IntPk], <<>>, <<>>)}

Schemas == Maps([users |-> UsersTables, constructor |-> OtherTables])

EmptySchema == <<>>

NoComparison == [by |-> "none", diff |-> EmptyDiff]

\* The schemas the preview pipeline is checked on: one table, whose columns vary.
TextNotNull == Col("text", NullLength, FALSE, JsNull, FALSE, <<>>)
TextDefault == Col("text", NullLength, TRUE, "'none'::text", FALSE, <<>>)
Varchar20 == Col("character varying", 20, TRUE, JsNull, FALSE, <<>>)

PipelineColumnMaps == Maps([id |-> {IntCol}, name |-> {TextCol, TextNotNull, TextDefault, Varchar20}])

PipelineSchemas == {[users |-> Table(cols, <<>>, <<>>)] : cols \in PipelineColumnMaps}

(***************************************************************************)
(* previewChanges, the registry and the reaper.                            *)
(***************************************************************************)
IdleLoc == [user |-> "none", script |-> "none", id |-> 0, port |-> 0, stopId |-> 0,
            created |-> FALSE, seeded |-> FALSE, applied |-> FALSE, outcome |-> "none"]

NoTarget == [user |-> "none", id |-> 0]

\* the candidate scripts a request of the validated variant may carry
RequestScripts ==
    [valid |-> ScriptOf(<<AddColumnText>>),
     truncate |-> ScriptOf(<<AddColumnText, TruncateText>>),
     garbage |-> ScriptOf(<<GarbageText>>)]

\* only the validated variant takes a psql argument
ScriptsFor(b) == IF b = "hybrid" THEN DOMAIN RequestScripts ELSE {"none"}

\* const verificationResult = verifyPsql(psql)
VerificationResult(s) == verifyPsql(RequestScripts[s], parserDropSchema)

\* now - info.lastAccessed > inactiveThreshold
IsStale(t, lastAccessed) == t - lastAccessed > InactiveThreshold

SetState(sb, id, st) == [sb EXCEPT ![id].state = st]

\* the engine instance of a deleted registry entry is unreferenced by the registry
Discard(sb, id) == IF id = 0 THEN sb ELSE SetState(sb, id, "removed")

LogLease(log, u, e, t) ==
    LET l == [id |-> e.id, lastAccessed |-> e.lastAccessed, at |-> t] IN
    [log EXCEPT ![u] = IF Len(@) < 2 THEN Append(@, l) ELSE <<@[2], l>>]

LogReset(log, u) == [log EXCEPT ![u] = <<>>]

\* the entry objects of the reaper's snapshot are the registry's own objects
TouchSnapshot(q, id, t) ==
    [i \in 1..Len(q) |-> IF q[i].id = id THEN [q[i] EXCEPT !.lastAccessed = t] ELSE q[i]]

Finish(p, outcome) ==
    /\ pc' = [pc EXCEPT ![p] = "done"]
    /\ loc' = [loc EXCEPT ![p].outcome = outcome]

\* previewChanges leaves through an error raised before its try block
Reject(p) ==
    /\ Finish(p, "error")
    /\ UNCHANGED <<registry, sandboxes, leaseLog>>

\* mutation: the script is applied without looking at the verification result
AfterLeaseUnchecked(p, s) == "srcSchema"

\* after the lease: the validated variant verifies the script, the others enter try
AfterLease(p, s) ==
    IF backend = "hybrid" /\ ~VerificationResult(s).isValid
    THEN "invalid"
    ELSE "srcSchema"

\* the call of previewChanges up to its first await: the lease
Start(p, u, s) ==
    /\ pc[p] = "idle"
    /\ s \in ScriptsFor(backend)
    /\ requests' = requests + 1
    /\ IF RegGet(registry, u) # NoEntry
       THEN /\ registry' = RegTouch(registry, u, now)
            /\ rqueue' = TouchSnapshot(rqueue, RegGet(registry, u).id, now)
            /\ leaseLog' = LogLease(leaseLog, u, RegGet(registry', u), now)
            /\ loc' = [loc EXCEPT ![p] =
                         [IdleLoc EXCEPT !.user = u, !.script = s,
                                         !.id = RegGet(registry, u).id,
                                         !.port = RegGet(registry, u).port,
                                         !.outcome = IF AfterLease(p, s) = "invalid"
                                                     THEN "invalid" ELSE "none"]]
            /\ pc' = [pc EXCEPT ![p] = IF AfterLease(p, s) = "invalid"
                                       THEN "done" ELSE "srcSchema"]
            /\ UNCHANGED <<sandboxes, nextId>>
       ELSE /\ nextId <= MaxSandboxes
            /\ nextId' = nextId + 1
            /\ rqueue' = rqueue
            /\ IF backend = "container"
               THEN \* startPreviewContainer up to await docker.pull
                    /\ loc' = [loc EXCEPT ![p] =
                                 [IdleLoc EXCEPT !.user = u, !.script = s, !.id = nextId,
                                                 !.port = BasePort + RegCount(registry)]]
                    /\ pc' = [pc EXCEPT ![p] = "pull"]
                    /\ UNCHANGED <<registry, sandboxes, leaseLog>>
               ELSE \* createPreviewDatabase has no await: it registers at once
                    /\ sandboxes' = [sandboxes EXCEPT ![nextId] =
                                       [user |-> u, port |-> 0, state |-> "running"]]
                    /\ registry' = RegSet(registry, u,
                                       [user |-> u, id |-> nextId, port |-> 0,
                                        lastAccessed |-> now])
                    /\ leaseLog' = LogLease(leaseLog, u, RegGet(registry', u), now)
                    /\ loc' = [loc EXCEPT ![p] =
                                 [IdleLoc EXCEPT !.user = u, !.script = s, !.id = nextId,
                                                 !.created = TRUE]]
                    /\ pc' = [pc EXCEPT ![p] = "leased"]
    /\ UNCHANGED <<pureVars, backend, now, ticks, rpc, rnow, rtarget>>

\* previewDb = await createPreviewDatabase(userId) resumes
Leased(p) ==
    /\ pc[p] = "leased"
    /\ IF AfterLease(p, loc[p].script) = "invalid"
       THEN Finish(p, "invalid")
       ELSE /\ pc' = [pc EXCEPT ![p] = "srcSchema"]
            /\ loc' = loc
    /\ UNCHANGED <<pureVars, backend, now, ticks, registry, sandboxes, nextId, requests,
                   rpc, rnow, rqueue, rtarget, leaseLog>>

\* await docker.pull('postgres:13')
Pull(p) ==
    /\ pc[p] = "pull"
    /\ \/ /\ pc' = [pc EXCEPT ![p] = "create"]
          /\ UNCHANGED <<loc, registry, sandboxes, leaseLog>>
       \/ Reject(p)
    /\ UNCHANGED <<pureVars, backend, now, ticks, nextId, requests, rpc, rnow, rqueue, rtarget>>

\* await docker.createContainer({...})
Create(p) ==
    /\ pc[p] = "create"
    /\ \/ /\ sandboxes' = [sandboxes EXCEPT ![loc[p].id] =
                             [user |-> loc[p].user, port |-> loc[p].port,
                              state |-> "created"]]
          /\ pc' = [pc EXCEPT ![p] = "start"]
          /\ loc' = [loc EXCEPT ![p].created = TRUE]
          /\ UNCHANGED <<registry, leaseLog>>
       \/ Reject(p)
    /\ UNCHANGED <<pureVars, backend, now, ticks, nextId, requests, rpc, rnow, rqueue, rtarget>>

\* the host port is bound by a running container
PortBound(sb, port) == \E i \in DOMAIN sb : sb[i].state = "running" /\ sb[i].port = port

\* await container.start(): fails when the host port is already allocated
StartContainer(p) ==
    /\ pc[p] = "start"
    /\ IF PortBound(sandboxes, loc[p].port)
       THEN Reject(p)
       ELSE /\ sandboxes' = SetState(sandboxes, loc[p].id, "running")
            /\ pc' = [pc EXCEPT ![p] = "settle"]
            /\ UNCHANGED <<loc, registry, leaseLog>>
    /\ UNCHANGED <<pureVars, backend, now, ticks, nextId, requests, rpc, rnow, rqueue, rtarget>>

\* the settle delay elapses; startPreviewContainer registers the container and returns
Settle(p) ==
    /\ pc[p] = "settle"
    /\ registry' = RegSet(registry, loc[p].user,
                       [user |-> loc[p].user, id |-> loc[p].id, port |-> loc[p].port,
                        lastAccessed |-> now])
    /\ leaseLog' = LogLease(leaseLog, loc[p].user, RegGet(registry', loc[p].user), now)
    /\ pc' = [pc EXCEPT ![p] = "srcSchema"]
    /\ UNCHANGED <<pureVars, backend, now, ticks, sandboxes, nextId, loc, requests,
                   rpc, rnow, rqueue, rtarget>>

\* the catch block up to its first await: stopPreviewContainer / removePreviewDatabase
EnterCatch(p) ==
    LET u == loc[p].user
        info == RegGet(registry, u)
    IN IF backend = "container"
       THEN IF info # NoEntry
            THEN /\ pc' = [pc EXCEPT ![p] = "stopping"]
                 /\ loc' = [loc EXCEPT ![p].stopId = info.id]
                 /\ UNCHANGED <<registry, sandboxes, leaseLog>>
            ELSE Reject(p)
       ELSE /\ registry' = RegDelete(registry, u)
            /\ sandboxes' = Discard(sandboxes, info.id)
            /\ leaseLog' = LogReset(leaseLog, u)
            /\ Finish(p, "error")

\* the sandbox answers on its connection string: a stopped container does not
Reachable(p) == backend = "container" => sandboxes[loc[p].id].state = "running"

\* an awaited step of the try block: it succeeds and control moves on, or it throws
TryStep(p, at, next) ==
    /\ pc[p] = at
    /\ \/ /\ at \in {"seed", "apply"} => Reachable(p)
          /\ pc' = [pc EXCEPT ![p] = next]
          /\ loc' = [loc EXCEPT ![p].seeded = @ \/ at = "seed",
                                ![p].applied = @ \/ at = "apply"]
          /\ UNCHANGED <<registry, sandboxes, leaseLog>>
       \/ EnterCatch(p)
    /\ UNCHANGED <<pureVars, backend, now, ticks, nextId, requests, rpc, rnow, rqueue, rtarget>>

\* await getSchema(source): the in-memory variant reads db.public.tables of a Pool
SrcSchema(p) ==
    IF backend = "memory"
    THEN /\ pc[p] = "srcSchema"
         /\ EnterCatch(p)
         /\ UNCHANGED <<pureVars, backend, now, ticks, nextId, requests, rpc, rnow, rqueue, rtarget>>
    ELSE TryStep(p, "srcSchema", IF backend = "hybrid" THEN "apply" ELSE "seed")

\* await applyPsqlToPreviewDB(preview, createSchemaSQL)
Seed(p) == TryStep(p, "seed", "tgtSchema")

\* await getSchema(target), then compareSchemas and generatePsql
TgtSchema(p) ==
    TryStep(p, "tgtSchema", IF backend = "hybrid" THEN "verifySchema" ELSE "apply")

\* await applyPsqlToPreviewDB(preview, psql): the validated variant's never throws
Apply(p) ==
    IF backend = "hybrid"
    THEN /\ pc[p] = "apply"
         /\ pc' = [pc EXCEPT ![p] = "tgtSchema"]
         /\ loc' = [loc EXCEPT ![p].applied = TRUE]
         /\ UNCHANGED <<pureVars, backend, now, ticks, registry, sandboxes, nextId, requests,
                        rpc, rnow, rqueue, rtarget, leaseLog>>
    ELSE TryStep(p, "apply", "verifySchema")

\* await getSchema(preview), then the final compareSchemas and return
VerifySchema(p) ==
    /\ pc[p] = "verifySchema"
    /\ \/ /\ Reachable(p)
          /\ Finish(p, "ok")
          /\ UNCHANGED <<registry, sandboxes, leaseLog>>
       \/ EnterCatch(p)
    /\ UNCHANGED <<pureVars, backend, now, ticks, nextId, requests, rpc, rnow, rqueue, rtarget>>

\* await container.stop(): succeeds on a running container only
Stopping(p) ==
    /\ pc[p] = "stopping"
    /\ \/ /\ sandboxes[loc[p].stopId].state = "running"
          /\ sandboxes' = SetState(sandboxes, loc[p].stopId, "stopped")
          /\ pc' = [pc EXCEPT ![p] = "removing"]
          /\ UNCHANGED <<loc, registry, leaseLog>>
       \/ Reject(p)
    /\ UNCHANGED <<pureVars, backend, now, ticks, nextId, requests, rpc, rnow, rqueue, rtarget>>

\* await container.remove(), then delete activeContainers[userId] and the rethrow
Removing(p) ==
    /\ pc[p] = "removing"
    /\ \/ /\ sandboxes[loc[p].stopId].state = "stopped"
          /\ sandboxes' = SetState(sandboxes, loc[p].stopId, "removed")
          /\ registry' = RegDelete(registry, loc[p].user)
          /\ leaseLog' = LogReset(leaseLog, loc[p].user)
          /\ Finish(p, "error")
       \/ Reject(p)
    /\ UNCHANGED <<pureVars, backend, now, ticks, nextId, requests, rpc, rnow, rqueue, rtarget>>

\* the caller has the result; the slot is free for the next request
Return(p) ==
    /\ pc[p] = "done"
    /\ pc' = [pc EXCEPT ![p] = "idle"]
    /\ loc' = [loc EXCEPT ![p] = IdleLoc]
    /\ UNCHANGED <<pureVars, backend, now, ticks, registry, sandboxes, nextId, requests,
                   rpc, rnow, rqueue, rtarget, leaseLog>>

\* Object.entries(activeContainers)
Snapshot(reg) ==
    [i \in 1..Len(reg) |->
        [user |-> reg[i].user, id |-> reg[i].id, lastAccessed |-> reg[i].lastAccessed]]

RECURSIVE SkipFresh(_, _)
SkipFresh(q, t) ==
    IF q = <<>> THEN <<>>
    ELSE IF IsStale(t, Head(q).lastAccessed) THEN q
    ELSE SkipFresh(Tail(q), t)

\* the for loop of cleanupInactive*, from entry q[1] to its next await or its end
ReapVisit(q, t) ==
    LET rest == SkipFresh(q, t) IN
    IF rest = <<>>
    THEN /\ rpc' = "finished"
         /\ rqueue' = <<>>
         /\ UNCHANGED <<registry, sandboxes, leaseLog, rtarget>>
    ELSE LET u == Head(rest).user
             info == RegGet(registry, u)
         IN /\ rqueue' = Tail(rest)
            /\ IF backend = "container"
               THEN IF info # NoEntry
                    THEN /\ rpc' = "rstopping"
                         /\ rtarget' = [user |-> u, id |-> info.id]
                         /\ UNCHANGED <<registry, sandboxes, leaseLog>>
                    ELSE /\ rpc' = "rloop"
                         /\ UNCHANGED <<registry, sandboxes, leaseLog, rtarget>>
               ELSE /\ registry' = RegDelete(registry, u)
                    /\ sandboxes' = Discard(sandboxes, info.id)
                    /\ leaseLog' = LogReset(leaseLog, u)
                    /\ rpc' = "rloop"
                    /\ rtarget' = rtarget

\* the timer fires: cleanupInactiveDatabases / cleanupInactiveContainers
ReapStart ==
    /\ rpc = "idle"
    /\ rnow' = now
    /\ ReapVisit(Snapshot(registry), now)
    /\ UNCHANGED <<pureVars, backend, now, ticks, nextId, pc, loc, requests>>

\* await stopPreviewContainer(userId) / removePreviewDatabase(userId) resumes
ReapResume ==
    /\ rpc = "rloop"
    /\ ReapVisit(rqueue, rnow)
    /\ UNCHANGED <<pureVars, backend, now, ticks, nextId, pc, loc, requests, rnow>>

\* await container.stop() in the reaper's stopPreviewContainer
ReapStop ==
    /\ rpc = "rstopping"
    /\ \/ /\ sandboxes[rtarget.id].state = "running"
          /\ sandboxes' = SetState(sandboxes, rtarget.id, "stopped")
          /\ rpc' = "rremoving"
       \/ /\ rpc' = "rejected"
          /\ sandboxes' = sandboxes
    /\ UNCHANGED <<pureVars, backend, now, ticks, registry, nextId, pc, loc, requests,
                   rnow, rqueue, rtarget, leaseLog>>

\* await container.remove(), then delete activeContainers[userId]
ReapRemove ==
    /\ rpc = "rremoving"
    /\ \/ /\ sandboxes[rtarget.id].state = "stopped"
          /\ sandboxes' = SetState(sandboxes, rtarget.id, "removed")
          /\ registry' = RegDelete(registry, rtarget.user)
          /\ leaseLog' = LogReset(leaseLog, rtarget.user)
          /\ rpc' = "rloop"
       \/ /\ rpc' = "rejected"
          /\ UNCHANGED <<registry, sandboxes, leaseLog>>
    /\ UNCHANGED <<pureVars, backend, now, ticks, nextId, pc, loc, requests, rnow, rqueue, rtarget>>

\* the cycle's promise has settled
ReapEnd ==
    /\ rpc \in {"finished", "rejected"}
    /\ rpc' = "idle"
    /\ rnow' = 0
    /\ rqueue' = <<>>
    /\ rtarget' = NoTarget
    /\ UNCHANGED <<pureVars, backend, now, ticks, registry, sandboxes, nextId, pc, loc, requests,
                   leaseLog>>

\* time passes
Advance(limit, steps) ==
    /\ ticks < limit
    /\ \E d \in steps : now' = now + d
    /\ ticks' = ticks + 1
    /\ UNCHANGED <<pureVars, backend, registry, sandboxes, nextId, pc, loc, requests,
                   rpc, rnow, rqueue, rtarget, leaseLog>>

ProcInit ==
    /\ backend \in Backends
    /\ now = 0
    /\ ticks = 0
    /\ registry = <<>>
    /\ sandboxes = [i \in 1..MaxSandboxes |-> NoSandbox]
    /\ nextId = 1
    /\ pc = [p \in Procs |-> "idle"]
    /\ loc = [p \in Procs |-> IdleLoc]
    /\ requests = 0
    /\ rpc = "idle"
    /\ rnow = 0
    /\ rqueue = <<>>
    /\ rtarget = NoTarget
    /\ leaseLog = [u \in Users |-> <<>>]

VerifyIdle ==
    /\ vScript = <<>>
    /\ vResult = NoResult

CompareIdle ==
    /\ cmpSchema1 = EmptySchema
    /\ cmpSchema2 = EmptySchema
    /\ cmp = NoComparison

PipelineIdle ==
    /\ plSource = EmptySchema
    /\ plTarget = EmptySchema
    /\ plDb = EmptyDatabase
    /\ plScript = <<>>
    /\ plStage = "idle"
    /\ plFinal = EmptyDiff
    /\ plRound = 0

NoSynthesis == [by |-> "none", called |-> FALSE, threw |-> FALSE, statements |-> <<>>]

SynthIdle == syn = NoSynthesis

ApplyIdle ==
    /\ apScript = <<>>
    /\ apIndex = 0
    /\ apStart = EmptyDatabase
    /\ apDb = EmptyDatabase
    /\ apLog = <<>>
    /\ apStage = "idle"

\* a step of the request in slot p after its call
Step(p) ==
    \/ Leased(p)
    \/ Pull(p)
    \/ Create(p)
    \/ StartContainer(p)
    \/ Settle(p)
    \/ SrcSchema(p)
    \/ Seed(p)
    \/ TgtSchema(p)
    \/ Apply(p)
    \/ VerifySchema(p)
    \/ Stopping(p)
    \/ Removing(p)
    \/ Return(p)

ReapStep ==
    \/ ReapResume
    \/ ReapStop
    \/ ReapRemove
    \/ ReapEnd

\* no handler is running
Quiescent == rpc = "idle" /\ \A p \in Procs : pc[p] = "idle"

(***************************************************************************)
(* Spec: the operations run one at a time, each to completion.             *)
(***************************************************************************)
Init ==
    /\ ProcInit
    /\ parserDropSchema = FALSE
    /\ VerifyIdle
    /\ CompareIdle
    /\ PipelineIdle
    /\ SynthIdle
    /\ ApplyIdle

SeqCall ==
    /\ Quiescent
    /\ requests < MaxRequests
    /\ \E u \in Users, s \in DOMAIN RequestScripts \cup {"none"} : Start("p1", u, s)

SeqReap ==
    /\ Quiescent
    /\ ReapStart

Tick == Advance(MaxTicks, TickSteps)

Next ==
    \/ SeqCall
    \/ Step("p1")
    \/ SeqReap
    \/ ReapStep
    \/ Tick

Spec == Init /\ [][Next]_vars

(***************************************************************************)
(* SpecConc: requests and the reaper interleave at every await.            *)
(***************************************************************************)
ConcCall ==
    /\ requests < MaxConcRequests
    /\ \E p \in Procs, u \in Users, s \in DOMAIN RequestScripts \cup {"none"} : Start(p, u, s)

ConcTick == Advance(MaxConcTicks, {InactiveThreshold + 1})

ConcStep == \E p \in Procs : Step(p)

NextConc ==
    \/ ConcCall
    \/ ConcStep
    \/ ReapStart
    \/ ReapStep
    \/ ConcTick

SpecConc == Init /\ [][NextConc]_vars

(***************************************************************************)
(* SpecVerify: verifyPsql applied to every script of Scripts, with either  *)
(* parser.                                                                 *)
(***************************************************************************)
InitVerify ==
    /\ ProcInit
    /\ backend = "hybrid"
    /\ CompareIdle
    /\ PipelineIdle
    /\ SynthIdle
    /\ ApplyIdle
    /\ parserDropSchema \in BOOLEAN
    /\ vScript \in Scripts
    /\ vResult = NoResult

Verify ==
    /\ vResult = NoResult
    /\ vResult' = verifyPsql(vScript, parserDropSchema)
    /\ UNCHANGED <<procVars, parserDropSchema, vScript, compareVars, pipelineVars,
                   synthVars, applyVars>>

NextVerify == Verify

SpecVerify == InitVerify /\ [][NextVerify]_vars

(***************************************************************************)
(* SpecCompare: either comparator applied to every pair of Schemas.        *)
(***************************************************************************)
InitCompare ==
    /\ ProcInit
    /\ backend = "memory"
    /\ parserDropSchema = FALSE
    /\ VerifyIdle
    /\ cmpSchema1 \in Schemas
    /\ cmpSchema2 \in Schemas
    /\ cmp = NoComparison
    /\ PipelineIdle
    /\ SynthIdle
    /\ ApplyIdle

Compare ==
    /\ cmp = NoComparison
    /\ cmp' = [by |-> "basic", diff |-> compareSchemas(cmpSchema1, cmpSchema2)]
    /\ UNCHANGED <<procVars, parserDropSchema, verifyVars, cmpSchema1, cmpSchema2, pipelineVars,
                   synthVars, applyVars>>

CompareExtended ==
    /\ cmp = NoComparison
    /\ cmp' = [by |-> "extended", diff |-> compareSchemasExtended(cmpSchema1, cmpSchema2)]
    /\ UNCHANGED <<procVars, parserDropSchema, verifyVars, cmpSchema1, cmpSchema2, pipelineVars,
                   synthVars, applyVars>>

NextCompare ==
    \/ Compare
    \/ CompareExtended

SpecCompare == InitCompare /\ [][NextCompare]_vars

(***************************************************************************)
(* SpecPipeline: the try block of previewChanges (part_002 lines 326-348) *)
(* on a fresh sandbox, for every pair of PipelineSchemas.                  *)
(***************************************************************************)
InitPipeline ==
    /\ ProcInit
    /\ backend = "container"
    /\ parserDropSchema = FALSE
    /\ VerifyIdle
    /\ CompareIdle
    /\ plSource \in PipelineSchemas
    /\ plTarget \in PipelineSchemas
    /\ plDb = EmptyDatabase
    /\ plScript = <<>>
    /\ plStage = "start"
    /\ plFinal = EmptyDiff
    /\ plRound = 1
    /\ SynthIdle
    /\ ApplyIdle

PipelineRest == <<procVars, parserDropSchema, verifyVars, compareVars, plSource, plTarget,
                  plRound, synthVars, applyVars>>

\* applyPsqlToPreviewDB(previewConnectionString, createSchemaSQL)
SeedSandbox ==
    /\ plStage = "start"
    /\ LET r == Execute(plDb, SeedScript(plSource).statements) IN
         /\ plDb' = r.db
         /\ plStage' = IF r.failed THEN "failed" ELSE "seeded"
    /\ UNCHANGED <<PipelineRest, plScript, plFinal>>

\* diff = compareSchemas(sourceSchema, targetSchema); psql = generatePsql(diff)
GenerateScript ==
    /\ plStage = "seeded"
    /\ LET diff == compareSchemas(plSource, plTarget) IN
         IF diff.threw \/ generatePsql(diff).threw
         THEN plStage' = "failed" /\ plScript' = plScript
         ELSE plStage' = "generated" /\ plScript' = generatePsql(diff).statements
    /\ UNCHANGED <<PipelineRest, plDb, plFinal>>

\* applyPsqlToPreviewDB(previewConnectionString, psql)
ApplyScript ==
    /\ plStage = "generated"
    /\ LET r == Execute(plDb, plScript) IN
         /\ plDb' = r.db
         /\ plStage' = IF r.failed THEN "failed" ELSE "applied"
    /\ UNCHANGED <<PipelineRest, plScript, plFinal>>

\* finalDiff = compareSchemas(getSchema(previewConnectionString), targetSchema)
IntrospectSandbox ==
    /\ plStage = "applied"
    /\ LET finalDiff == compareSchemas(getSchema(plDb), plTarget) IN
         /\ plFinal' = finalDiff
         /\ plStage' = IF finalDiff.threw THEN "failed" ELSE "done"
    /\ UNCHANGED <<PipelineRest, plDb, plScript>>

NextPipeline ==
    \/ SeedSandbox
    \/ GenerateScript
    \/ ApplyScript
    \/ IntrospectSandbox

SpecPipeline == InitPipeline /\ [][NextPipeline]_vars

(***************************************************************************)
(* SpecReuse: two previews of one user in a row (part_002 lines 316-354).  *)
(* The first finds no registry entry and runs on a new container; when it  *)
(* has succeeded the second finds the entry (line 319) and runs its try    *)
(* block on the same container, left as the first preview left it.         *)
(***************************************************************************)
\* the second call of previewChanges: the sandbox comes from the registry
ReuseSandbox ==
    /\ plStage = "done"
    /\ plRound = 1
    /\ plRound' = 2
    /\ plSource' \in PipelineSchemas
    /\ plTarget' \in PipelineSchemas
    /\ plStage' = "start"
    /\ plScript' = <<>>
    /\ plFinal' = EmptyDiff
    /\ UNCHANGED <<procVars, parserDropSchema, verifyVars, compareVars, synthVars, applyVars,
                   plDb>>

NextReuse ==
    \/ SeedSandbox
    \/ GenerateScript
    \/ ApplyScript
    \/ IntrospectSandbox
    \/ ReuseSandbox

SpecReuse == InitPipeline /\ [][NextReuse]_vars

(***************************************************************************)
(* SpecSynthesize: a diff and the script generated from it, for every pair *)
(* of Schemas, by the basic pair (part_002 lines 338-339) and by the       *)
(* extended pair (compare-schemas/route.ts lines 10-11).                   *)
(***************************************************************************)
InitSynthesize ==
    /\ ProcInit
    /\ backend = "container"
    /\ parserDropSchema = FALSE
    /\ VerifyIdle
    /\ cmpSchema1 \in Schemas
    /\ cmpSchema2 \in Schemas
    /\ cmp = NoComparison
    /\ PipelineIdle
    /\ SynthIdle
    /\ ApplyIdle

\* what the caller holds after diff = compareSchemas(...); psql = generatePsql(...)
Synthesized(by, diff, script) ==
    IF diff.threw THEN [NoSynthesis EXCEPT !.by = by]
    ELSE [by |-> by, called |-> TRUE, threw |-> script.threw,
          statements |-> script.statements]

SynthRest == <<procVars, parserDropSchema, verifyVars, cmpSchema1, cmpSchema2, pipelineVars,
               applyVars>>

\* const diff = compareSchemas(sourceSchema, targetSchema); const psql = generatePsql(diff)
Synthesize ==
    /\ syn = NoSynthesis
    /\ LET diff == compareSchemas(cmpSchema1, cmpSchema2) IN
         /\ cmp' = [by |-> "basic", diff |-> diff]
         /\ syn' = Synthesized("basic", diff, generatePsql(diff))
    /\ UNCHANGED SynthRest

\* const diff = await compareSchemas(schema1, schema2); const psql = generatePsql(diff, schema2)
SynthesizeExtended ==
    /\ syn = NoSynthesis
    /\ LET diff == compareSchemasExtended(cmpSchema1, cmpSchema2) IN
         /\ cmp' = [by |-> "extended", diff |-> diff]
         /\ syn' = Synthesized("extended", diff, generatePsqlExtended(diff, cmpSchema2))
    /\ UNCHANGED SynthRest

NextSynthesize ==
    \/ Synthesize
    \/ SynthesizeExtended

SpecSynthesize == InitSynthesize /\ [][NextSynthesize]_vars

(***************************************************************************)
(* SpecApply: applyPsqlToPreviewDB of part_001 (lines 272-288) statement   *)
(* by statement on the in-memory sandbox, followed by the comparison of    *)
(* the sandbox with the target (lines 325-329).  The sandbox is new, or    *)
(* the one an earlier request of the user left behind.                     *)
(***************************************************************************)
MaxApplyStatements == 3

ApplyStatements ==
    {CreateTableStmt("users"), AddColumnStmt("users", "id", IntCol),
     AddColumnStmt("users", "name", TextCol), DropColumnStmt("users", "name"),
     DropTableStmt("users")}

ApplyScripts == UNION {[1..n -> ApplyStatements] : n \in 0..MaxApplyStatements}

UsedDatabase ==
    Execute(EmptyDatabase,
            <<CreateTableStmt("users"), AddColumnStmt("users", "id", IntCol)>>).db

InitApply ==
    /\ ProcInit
    /\ backend = "hybrid"
    /\ parserDropSchema = FALSE
    /\ VerifyIdle
    /\ CompareIdle
    /\ SynthIdle
    /\ plSource = EmptySchema
    /\ plTarget \in PipelineSchemas
    /\ plDb = EmptyDatabase
    /\ plScript = <<>>
    /\ plStage = "idle"
    /\ plFinal = EmptyDiff
    /\ plRound = 0
    /\ apScript \in ApplyScripts
    /\ apIndex = 0
    /\ apStart \in {EmptyDatabase, UsedDatabase}
    /\ apDb = apStart
    /\ apLog = <<>>
    /\ apStage = "running"

\* a catch block that reports the statement and throws the error on
CaughtRethrown(log, index) == [log |-> Append(log, index), stage |-> "raised"]

\* the catch block: console.error reports the statement, the loop goes on
Caught(log, index) == [log |-> Append(log, index), stage |-> "running"]

ApplyRest == <<procVars, parserDropSchema, verifyVars, compareVars, synthVars,
               plSource, plTarget, plDb, plScript, plStage, plRound, apScript, apStart>>

\* one turn of the for loop: db.public.none(statement) inside try / catch
ApplyStatement ==
    /\ apStage = "running"
    /\ apIndex < Len(apScript)
    /\ apIndex' = apIndex + 1
    /\ LET statement == apScript[apIndex + 1] IN
         IF Executable(apDb, statement)
         THEN /\ apDb' = Executed(apDb, statement)
              /\ UNCHANGED <<apLog, apStage>>
         ELSE /\ apLog' = Caught(apLog, apIndex + 1).log
              /\ apStage' = Caught(apLog, apIndex + 1).stage
              /\ apDb' = apDb
    /\ UNCHANGED <<ApplyRest, plFinal>>

\* the loop is over: applyPsqlToPreviewDB returns
ApplyReturn ==
    /\ apStage = "running"
    /\ apIndex = Len(apScript)
    /\ apStage' = "returned"
    /\ UNCHANGED <<ApplyRest, plFinal, apIndex, apDb, apLog>>

\* finalDiff = compareSchemas(await getSchema(previewDb), targetSchema)
ApplyDiff ==
    /\ apStage = "returned"
    /\ LET finalDiff == compareSchemas(getSchemaMem(apDb), plTarget) IN
         /\ plFinal' = finalDiff
         /\ apStage' = IF finalDiff.threw THEN "failed" ELSE "done"
    /\ UNCHANGED <<ApplyRest, apIndex, apDb, apLog>>

NextApply ==
    \/ ApplyStatement
    \/ ApplyReturn
    \/ ApplyDiff

SpecApply == InitApply /\ [][NextApply]_vars

(***************************************************************************)
(* Claims about the registry, the reaper and previewChanges.               *)
(***************************************************************************)
\* a sandbox that was started and has not been removed
Live(sb) == sb.state \in {"running", "stopped"}

\* the sandbox is the one the registry records for its user
Recorded(id) == RegGet(registry, sandboxes[id].user).id = id

\* C1: with the operations run one at a time, the registry has at most one entry
\* per user, and every engine or started container that has not been discarded is
\* the one recorded for its user (or the one the running request is registering).
C1_OneSandboxPerUser ==
    /\ \A i, j \in 1..Len(registry) : registry[i].user = registry[j].user => i = j
    /\ \A id \in DOMAIN sandboxes :
          Live(sandboxes[id]) =>
              \/ Recorded(id)
              \/ \E p \in Procs : pc[p] = "settle" /\ loc[p].id = id

\* two users hold a sandbox after an earlier sandbox was discarded
C1_Witness ==
    /\ Quiescent
    /\ Len(registry) = 2
    /\ \A i \in 1..Len(registry) : sandboxes[registry[i].id].state = "running"
    /\ \E id \in DOMAIN sandboxes : sandboxes[id].state = "removed"

\* C2 (as claimed): two concurrent calls for one user never both provision a
\* sandbox: those inside startPreviewContainer with a created container hold the
\* same one.
C2_AtomicLease ==
    \A p, q \in Procs :
        (/\ p # q
         /\ loc[p].user = loc[q].user
         /\ pc[p] \in {"start", "settle"}
         /\ pc[q] \in {"start", "settle"})
        => loc[p].id = loc[q].id

\* the request provisioned a sandbox that is still there
HoldsOwnSandbox(p) ==
    loc[p].created /\ sandboxes[loc[p].id].state \in {"created", "running"}

\* C3 (as claimed): when previewChanges ends in failure (an error, or a script
\* rejected by validation) the registry has no entry for the user and no sandbox
\* provisioned for the request remains.
C3_FailureReleases ==
    \A p \in Procs :
        (pc[p] = "done" /\ loc[p].outcome \in {"error", "invalid"})
        => /\ RegGet(registry, loc[p].user) = NoEntry
           /\ ~HoldsOwnSandbox(p)

\* the request carries a script verifyPsql rejects
Rejected(p) ==
    /\ backend = "hybrid"
    /\ pc[p] # "idle"
    /\ ~VerificationResult(loc[p].script).isValid

\* C4: in the validated variant a request whose script verifyPsql rejects returns
\* the verification result and never reaches applyPsqlToPreviewDB.
C4_RejectedNeverApplied ==
    \A p \in Procs :
        Rejected(p) => /\ ~loc[p].applied
                       /\ pc[p] \in {"leased", "done"}
                       /\ pc[p] = "done" => loc[p].outcome = "invalid"

\* a rejected request has returned
C4_Witness ==
    \E p \in Procs : Rejected(p) /\ pc[p] = "done" /\ loc[p].outcome = "invalid"

\* C7 (as claimed): of two successive leases with no release or reap between them
\* the second returns the same sandbox with a strictly greater lastAccessed.
C7_StrictlyIncreasing ==
    \A u \in Users :
        Len(leaseLog[u]) = 2 =>
            /\ leaseLog[u][2].id = leaseLog[u][1].id
            /\ leaseLog[u][2].lastAccessed > leaseLog[u][1].lastAccessed

\* C7 (amended): the second lease returns the same sandbox, its lastAccessed is the
\* clock reading of the second lease and is not smaller than after the first; it
\* is strictly greater when the clock advanced between the two leases.
C7_SameSandboxRefreshed ==
    \A u \in Users :
        Len(leaseLog[u]) = 2 =>
            /\ leaseLog[u][2].id = leaseLog[u][1].id
            /\ leaseLog[u][2].lastAccessed = leaseLog[u][2].at
            /\ leaseLog[u][2].lastAccessed >= leaseLog[u][1].lastAccessed
            /\ leaseLog[u][2].at > leaseLog[u][1].at
                  => leaseLog[u][2].lastAccessed > leaseLog[u][1].lastAccessed

\* a sandbox was leased twice, the clock having advanced in between
C7_Witness ==
    \E u \in Users :
        /\ Len(leaseLog[u]) = 2
        /\ leaseLog[u][2].at > leaseLog[u][1].at
        /\ RegGet(registry, u).id = leaseLog[u][2].id

\* C8 (as claimed): when a reaper cycle has finished, also by a failed discard, no
\* entry of the registry is older than the threshold at the cycle's clock reading.
C8_NoStaleAfterReap ==
    rpc \in {"finished", "rejected"} =>
        \A i \in 1..Len(registry) : ~IsStale(rnow, registry[i].lastAccessed)

\* C20 (as claimed): in every variant a request applies its script only to a
\* sandbox it has seeded with the source schema, and reads the sandbox back only
\* after the script was applied.
C20_SeedBeforeApply ==
    \A p \in Procs :
        /\ loc[p].applied => loc[p].seeded
        /\ (pc[p] = "verifySchema" \/ loc[p].outcome = "ok") => loc[p].applied

\* the request has begun its steps on the sandbox (seed or apply) and has not
\* yet read the sandbox back
InSandboxSteps(p) ==
    /\ pc[p] \in {"tgtSchema", "apply", "verifySchema"}
    /\ loc[p].seeded \/ loc[p].applied

\* C21 (as claimed): two overlapping requests are never both in the middle of
\* their seed, apply, verify steps on the same sandbox.
C21_TotallyOrdered ==
    \A p, q \in Procs :
        (p # q /\ InSandboxSteps(p) /\ InSandboxSteps(q)) => loc[p].id # loc[q].id

\* a reaper cycle or a failed request is between the start of its release of the
\* sandbox and the removal of the registry entry
Releasing(id) ==
    \/ rpc \in {"rstopping", "rremoving"} /\ rtarget.id = id
    \/ \E q \in Procs : pc[q] \in {"stopping", "removing"} /\ loc[q].stopId = id

\* the request holds its sandbox and is inside its try block
InTry(p) == pc[p] \in {"srcSchema", "seed", "tgtSchema", "apply", "verifySchema"}

\* C22 (as claimed): a request inside its try block never holds a sandbox that a
\* reaper cycle or another request is releasing, or one that was stopped or removed.
C22_ReleaseExcludesLease ==
    \A p \in Procs :
        InTry(p) => /\ ~Releasing(loc[p].id)
                    /\ sandboxes[loc[p].id].state \notin {"stopped", "removed"}

\* C23 (as claimed): no failure escapes unhandled: a request that fails ends with
\* an error its caller receives, and the promise of the reaper's timer callback,
\* which nothing awaits, is never rejected.
C23_NothingEscapes ==
    /\ \A p \in Procs : pc[p] = "done" => loc[p].outcome \in {"ok", "invalid", "error"}
    /\ rpc # "rejected"

\* the request is inside startPreviewContainer, its port computed
\* and its container not yet registered
Provisioning(p) == pc[p] \in {"pull", "create", "start", "settle"}

\* C25 (as claimed): in the container variant no two registered sandboxes have the
\* same host port, and the port computed for a new sandbox is the port of no
\* registered sandbox.
C25_DistinctPorts ==
    backend = "container" =>
        /\ \A i, j \in 1..Len(registry) : registry[i].port = registry[j].port => i = j
        /\ \A p \in Procs :
              Provisioning(p) => \A i \in 1..Len(registry) : registry[i].port # loc[p].port

\* the sandbox is registered and its entry has not been accessed within the threshold
IdleSandbox(id) ==
    \A i \in 1..Len(registry) :
        registry[i].id = id => IsStale(now, registry[i].lastAccessed)

\* this step is the reaper stopping or removing the sandbox
ReaperDiscards(id) ==
    /\ rpc' # rpc \/ rqueue' # rqueue
    /\ sandboxes'[id].state # sandboxes[id].state
    /\ sandboxes'[id].state \in {"stopped", "removed"}

\* C27 (as claimed): whenever a reaper cycle stops or removes a sandbox, the
\* sandbox's registry entry is older than the threshold at that moment.
C27_ReapsOnlyIdle ==
    [][\A id \in DOMAIN sandboxes : ReaperDiscards(id) => IdleSandbox(id)]_vars

NonBlank == SelectSeq(Split(vScript), LAMBDA st : Trim(st) # <<>>)

\* the positions in NonBlank of the statements the parser rejects
Unparsable == {i \in 1..Len(NonBlank) : ~Parse(NonBlank[i], parserDropSchema)}

\* the error entries that report a statement the parser rejected
ParseEntries == SelectSeq(vResult.errors, LAMBDA e : e.kind = "parse")

\* C16: verifyPsql reports every statement the parser rejects, one entry each in
\* script order, whatever precedes the statement; and isValid is true exactly when
\* the errors list is empty.
C16_Exhaustive ==
    vResult # NoResult =>
        /\ Len(ParseEntries) = Cardinality(Unparsable)
        /\ \A i \in Unparsable :
              \E k \in 1..Len(ParseEntries) :
                 /\ ParseEntries[k].statement = Trim(NonBlank[i])
                 /\ k = Cardinality({j \in Unparsable : j <= i})
        /\ vResult.isValid <=> vResult.errors = <<>>

\* a script whose two statements are both rejected by the parser, both reported
C16_Witness ==
    /\ vResult # NoResult
    /\ Cardinality(Unparsable) = 2
    /\ Len(ParseEntries) = 2
    /\ ~vResult.isValid

\* the positions in NonBlank of the statements that drop a database or a schema
Destructive == {i \in 1..Len(NonBlank) : IsDestructive(NonBlank[i])}

\* the error entries that name a statement that drops a database or a schema
DestructiveEntries == {k \in 1..Len(vResult.errors) : IsDestructive(vResult.errors[k].statement)}

IsAddColumn(stmt) ==
    LET w == SqlWords(stmt) IN
    /\ Len(w) = 7
    /\ w[1] = kw_alter /\ w[2] = kw_table /\ w[4] = kw_add /\ w[5] = kw_column
    /\ Parse(stmt, parserDropSchema)

\* C18 (as claimed): verifyPsql accepts every script whose statements are all
\* well-formed ALTER TABLE ... ADD COLUMN statements.
C18_AddColumnAccepted ==
    (/\ vResult # NoResult
     /\ NonBlank # <<>>
     /\ \A i \in 1..Len(NonBlank) : IsAddColumn(NonBlank[i]))
    => vResult.isValid /\ vResult.errors = <<>>

(***************************************************************************)
(* Claims about compareSchemas.                                            *)
(***************************************************************************)
\* C9: comparing a schema with itself gives the empty diff, with the basic and
\* with the extended comparator.
C9_SelfCompareEmpty ==
    (cmp.by # "none" /\ cmpSchema1 = cmpSchema2) => cmp.diff = EmptyDiff

C9_Witness ==
    /\ cmp.by = "extended"
    /\ cmpSchema1 = cmpSchema2
    /\ DOMAIN cmpSchema1 = {"users", "constructor"}
    /\ Len(cmpSchema1["users"].foreignKeys) = 2
    /\ Len(cmpSchema1["users"].rlsPolicies) = 1
    /\ DOMAIN cmpSchema1["users"].columns = {"id", "name"}
    /\ cmp.diff = EmptyDiff

\* C10 (as claimed): comparing the empty schema with a schema S reports exactly
\* the tables of S as added, none removed and none changed.
C10_AllTablesAdded ==
    (cmp.by # "none" /\ cmpSchema1 = EmptySchema) =>
        /\ ~cmp.diff.threw
        /\ Range(cmp.diff.tablesAdded) = DOMAIN cmpSchema2
        /\ cmp.diff.tablesRemoved = <<>>
        /\ cmp.diff.tablesDiff = <<>>

\* the diff compareSchemas reports for table t: its entry, or no difference
EntryOf(t) ==
    IF t \in DOMAIN cmp.diff.tablesDiff THEN cmp.diff.tablesDiff[t] ELSE EmptyTableDiff

\* the tables both schemas hold, once a comparator has returned
Compared == IF cmp.by = "none" \/ cmp.diff.threw THEN {}
            ELSE DOMAIN cmpSchema1 \cap DOMAIN cmpSchema2

\* C11 (as claimed): no entry of tablesDiff has every sub-field empty: each has an
\* added, removed or changed column, or a non-empty foreign-key or policy change.
C11_NoEmptyEntry ==
    cmp.by # "none" =>
        \A t \in DOMAIN cmp.diff.tablesDiff :
            LET td == cmp.diff.tablesDiff[t] IN
            \/ Len(td.columnsAdded) > 0
            \/ Len(td.columnsRemoved) > 0
            \/ DOMAIN td.columnsDiff # {}
            \/ Len(td.foreignKeysAdded) > 0
            \/ Len(td.foreignKeysRemoved) > 0
            \/ td.foreignKeys.set /\ Len(td.foreignKeys.value) > 0
            \/ td.rlsPolicies.set /\ Len(td.rlsPolicies.value) > 0

\* C12 (as claimed): foreign keys are compared as sets: the basic comparator
\* reports as added the keys of the target missing from the source and as removed
\* those of the source missing from the target, and with either comparator two
\* lists holding the same keys report no foreign-key difference.
C12_ForeignKeysAsSets ==
    \A t \in Compared :
        LET fk1 == Range(cmpSchema1[t].foreignKeys)
            fk2 == Range(cmpSchema2[t].foreignKeys)
        IN /\ cmp.by = "basic" =>
                 /\ Range(EntryOf(t).foreignKeysAdded) = fk2 \ fk1
                 /\ Range(EntryOf(t).foreignKeysRemoved) = fk1 \ fk2
           /\ fk1 = fk2 =>
                 /\ ~EntryOf(t).foreignKeys.set
                 /\ EntryOf(t).foreignKeysAdded = <<>>
                 /\ EntryOf(t).foreignKeysRemoved = <<>>

\* C13 (as claimed): for a table of both schemas the column names are partitioned
\* exactly: only in the target - added; only in the source - removed; in both -
\* in columnsDiff iff the two ColumnInfo differ, with from the source's and to the
\* target's.
C13_ColumnPartition ==
    \A t \in Compared :
        LET c1 == cmpSchema1[t].columns
            c2 == cmpSchema2[t].columns
            td == EntryOf(t)
        IN /\ Range(td.columnsAdded) = DOMAIN c2 \ DOMAIN c1
           /\ Range(td.columnsRemoved) = DOMAIN c1 \ DOMAIN c2
           /\ DOMAIN td.columnsDiff = {c \in DOMAIN c1 \cap DOMAIN c2 : c1[c] # c2[c]}
           /\ \A c \in DOMAIN td.columnsDiff :
                 c \in DOMAIN c1 \cap DOMAIN c2 =>
                     td.columnsDiff[c] = [from |-> c1[c], to |-> c2[c]]

(***************************************************************************)
(* Claims about script synthesis.                                          *)
(***************************************************************************)
ColumnChangeOps == {"ALTER TYPE", "SET NOT NULL", "DROP NOT NULL", "SET DEFAULT", "DROP DEFAULT"}

\* the place of a statement in the ordering policy for one changed table, 0
\* for a statement the policy does not name; DROP CONSTRAINT IF EXISTS of a
\* constraint that is added again counts with the addition
PolicyRank(st) ==
    CASE st.op = "ADD COLUMN" -> 1
      [] st.op \in ColumnChangeOps -> 2
      [] st.op = "DROP COLUMN" -> 3
      [] st.op = "ADD CONSTRAINT" -> 4
      [] st.op = "DROP CONSTRAINT" -> IF st.ifExists THEN 4 ELSE 5
      [] OTHER -> 0

Ranked(st) == PolicyRank(st) > 0

\* a script was generated from the diff of the two schemas
Generated == syn.called /\ ~syn.threw

\* C14 (as claimed): in every generated script the DROP TABLE statements come
\* first, the CREATE TABLE statements come before every statement on a changed
\* table, and the statements on one changed table run add columns, column
\* changes, drop columns, add foreign keys, drop foreign keys.
C14_OrderingPolicy ==
    Generated =>
        LET stmts == syn.statements
            changed == DOMAIN cmp.diff.tablesDiff
        IN \A i, j \in 1..Len(stmts) :
              i < j =>
                 /\ stmts[j].op = "DROP TABLE" => stmts[i].op = "DROP TABLE"
                 /\ stmts[j].op = "CREATE TABLE" => stmts[i].table \notin changed
                 /\ (/\ stmts[i].table = stmts[j].table
                     /\ stmts[i].table \in changed
                     /\ Ranked(stmts[i])
                     /\ Ranked(stmts[j]))
                    => PolicyRank(stmts[i]) <= PolicyRank(stmts[j])

\* C15 (as claimed): generatePsql returns a script, without raising, for every
\* diff compareSchemas returns on two schemas.
C15_NeverRaises == syn.called => ~syn.threw

\* the (grantee, privilege, column) triples the columns of a table carry, read
\* from GRANT <privilege> ON <table>(<column>) TO <grantee>
Carried(columns) ==
    UNION {{[grantee |-> columns[c].permissions[i][6],
             privilege |-> columns[c].permissions[i][2], column |-> c]
            : i \in 1..Len(columns[c].permissions)} : c \in DOMAIN columns}

\* the tables the extended generator writes statements for
Written == Range(cmp.diff.tablesAdded) \cup DOMAIN cmp.diff.tablesDiff

\* C24 (as claimed): for every table written and every grantee and privilege its
\* columns carry, the script of the extended generator has exactly one statement
\* granting that privilege on the table to that grantee, and it lists exactly the
\* columns that carry the permission.
C24_GrantsAggregated ==
    (Generated /\ syn.by = "extended") =>
        \A t \in Written :
            \A e \in Carried(cmpSchema2[t].columns) :
                LET cols == {x.column : x \in {y \in Carried(cmpSchema2[t].columns) :
                                                  /\ y.grantee = e.grantee
                                                  /\ y.privilege = e.privilege}}
                    grantsIt(st) ==
                        /\ st.op = "PERMISSION"
                        /\ st.table = t
                        /\ st.words = <<e.grantee>>
                        /\ \E k \in 1..Len(st.grants) :
                              /\ st.grants[k].privilege = e.privilege
                              /\ Range(st.grants[k].columns) = cols
                              /\ Len(st.grants[k].columns) = Cardinality(cols)
                IN Cardinality({i \in 1..Len(syn.statements) : grantsIt(syn.statements[i])}) = 1

\* the statement alters column c of table t, or grants on it
Concerns(st, t, c) ==
    /\ st.table = t
    /\ \/ st.column = c
       \/ \E k \in 1..Len(st.grants) : c \in Range(st.grants[k].columns)

\* C29 (as claimed): every column a diff lists in columnsDiff has at least one
\* statement of its own in the script generated from the diff.
C29_EveryChangeHasDdl ==
    Generated =>
        \A t \in DOMAIN cmp.diff.tablesDiff :
            \A c \in DOMAIN cmp.diff.tablesDiff[t].columnsDiff :
                \E i \in 1..Len(syn.statements) : Concerns(syn.statements[i], t, c)

\* a database that holds the schema: the catalog getSchema reads it from
Catalog(schema) ==
    [t \in DOMAIN schema |->
        [columns |-> [c \in DOMAIN schema[t].columns |->
                         LET col == schema[t].columns[c] IN
                         [data_type |-> col.type, character_maximum_length |-> col.maxLength,
                          is_nullable |-> IF col.isNullable THEN "YES" ELSE "NO",
                          column_default |-> col.defaultValue,
                          is_primary_key |-> col.isPrimaryKey]],
         constraints |-> schema[t].foreignKeys]]

FksOn(fks, c) == SelectSeq(fks, LAMBDA fk : fk.columnName = c)

\* the statements of the script that add or drop a constraint of table t, in order
ConstraintStmts(stmts, t) ==
    SelectSeq(stmts, LAMBDA st : st.table = t /\ st.op \in {"ADD CONSTRAINT", "DROP CONSTRAINT"})

\* the one foreign key of t, on column c, is replaced by another one on c;
\* column c and the primary key the new one refers to are in both schemas
Replaced(t, c) ==
    /\ t \in DOMAIN cmpSchema1 /\ t \in DOMAIN cmpSchema2
    /\ c \in DOMAIN cmpSchema1[t].columns /\ c \in DOMAIN cmpSchema2[t].columns
    /\ Len(cmpSchema1[t].foreignKeys) = 1 /\ Len(cmpSchema2[t].foreignKeys) = 1
    /\ cmpSchema1[t].foreignKeys[1].columnName = c
    /\ cmpSchema2[t].foreignKeys[1].columnName = c
    /\ cmpSchema1[t].foreignKeys # cmpSchema2[t].foreignKeys
    /\ LET fk == cmpSchema2[t].foreignKeys[1] IN
       /\ HasColumn(Catalog(cmpSchema1), fk.referenceTable, fk.referenceColumn)
       /\ HasColumn(Catalog(cmpSchema2), fk.referenceTable, fk.referenceColumn)
       /\ cmpSchema1[fk.referenceTable].columns[fk.referenceColumn].isPrimaryKey
       /\ cmpSchema2[fk.referenceTable].columns[fk.referenceColumn].isPrimaryKey

\* C30 (as claimed): when the foreign key on column c of table t is replaced,
\* the constraint statements of the generated script, applied in order to a
\* database holding the source schema, succeed and leave t with exactly the
\* target's foreign key on c.
C30_ForeignKeyReplaced ==
    Generated =>
        \A t \in DOMAIN cmpSchema1 : \A c \in Range(KeyOrder) :
            Replaced(t, c) =>
                LET r == Execute(Catalog(cmpSchema1), ConstraintStmts(syn.statements, t)) IN
                /\ ~r.failed
                /\ FksOn(r.db[t].constraints, c) = cmpSchema2[t].foreignKeys

(***************************************************************************)
(* Claims about applyPsqlToPreviewDB.                                      *)
(***************************************************************************)
\* the sandbox and the failures after the first k statements of a script, each
\* statement run on the catalog its predecessors left, failed ones skipped
RECURSIVE BestEffort(_, _, _)
BestEffort(db, stmts, k) ==
    IF k = 0 THEN [db |-> db, failed |-> <<>>]
    ELSE LET before == BestEffort(db, stmts, k - 1) IN
         IF Executable(before.db, stmts[k])
         THEN [db |-> Executed(before.db, stmts[k]), failed |-> before.failed]
         ELSE [db |-> before.db, failed |-> Append(before.failed, k)]

\* C19: in the validated variant a statement that fails against the sandbox is
\* reported and every later statement is still run, in script order, on what the
\* earlier ones left; applyPsqlToPreviewDB does not raise, and previewChanges
\* goes on to return the diff of the sandbox against the target.
C19_BestEffortApply ==
    /\ apStage \notin {"raised", "failed"}
    /\ apStage # "idle" =>
          /\ apDb = BestEffort(apStart, apScript, apIndex).db
          /\ apLog = BestEffort(apStart, apScript, apIndex).failed
    /\ apStage \in {"returned", "done"} => apIndex = Len(apScript)
    /\ apStage = "done" =>
          /\ ~plFinal.threw
          /\ plFinal = compareSchemas(getSchemaMem(apDb), plTarget)

\* the first statement failed, a later one changed the sandbox, the diff was returned
C19_Witness ==
    /\ apStage = "done"
    /\ Len(apLog) > 0
    /\ apLog[1] = 1
    /\ Len(apLog) < Len(apScript)
    /\ apDb # apStart

(***************************************************************************)
(* Claims about the preview pipeline.                                      *)
(***************************************************************************)
\* the outcome of the try block of previewChanges on a sandbox whose catalog is db
PreviewOutcome(db, source, target) ==
    LET seeded == Execute(db, SeedScript(source).statements)
        diff == compareSchemas(source, target)
        psql == generatePsql(diff)
        applied == Execute(seeded.db, psql.statements)
        finalDiff == compareSchemas(getSchema(applied.db), target)
    IN IF seeded.failed \/ diff.threw \/ psql.threw THEN [stage |-> "failed", diff |-> EmptyDiff]
       ELSE IF applied.failed \/ finalDiff.threw THEN [stage |-> "failed", diff |-> EmptyDiff]
       ELSE [stage |-> "done", diff |-> finalDiff]

\* C28 (as claimed): when the seeding of a new sandbox has completed, the schema
\* read back from the sandbox is the source schema.
C28_SeedEqualsSource ==
    (plRound = 1 /\ plStage = "seeded") =>
        compareSchemas(getSchema(plDb), plSource) = EmptyDiff

\* C26 (as claimed): a preview on the sandbox an earlier successful preview left
\* behind ends as the same preview ends on a new sandbox: it succeeds or fails
\* alike, and returns the same diff.
C26_ReuseLikeFresh ==
    (plRound = 2 /\ plStage \in {"done", "failed"}) =>
        LET fresh == PreviewOutcome(EmptyDatabase, plSource, plTarget) IN
        /\ plStage = fresh.stage
        /\ plStage = "done" => plFinal = fresh.diff

\* C5 (as claimed): when source and target differ only in the columns of their
\* tables, the pipeline (seed with the source, apply generatePsql of the diff,
\* introspect) completes and its final diff against the target is empty.
C5_Convergence ==
    (plStage \in {"done", "failed"} /\ DOMAIN plSource = DOMAIN plTarget) =>
        plStage = "done" /\ plFinal = EmptyDiff

====
